---- MODULE Spec2Model ----
(***************************************************************************)
(* serverless-s3-ferry: the directory-to-bucket synchronisation engine.    *)
(*                                                                         *)
(* Strings (paths, prefixes, keys, entity-tags) are sequences of           *)
(* one-character strings, so that prefix normalisation, separator          *)
(* replacement and the '-' test on entity-tags are computed as the code    *)
(* computes them.                                                          *)
(***************************************************************************)
EXTENDS Integers, Sequences, FiniteSets, Bags, TLC

VARIABLES
    pathSep,              \* node:path `sep` of the host ("/" or "\\")
    options,              \* the options record of the running call
    localTree,            \* regular files under localDir, in enumeration order
    bucket,               \* the store: sequence of objects [Key, ETag] in listing order
    op,                   \* which entry point this behaviour exercises
    run,                  \* number of the uploadDirectory pass (1 or 2)
    pc,                   \* position of the entry point's own async function
    outcome,              \* settlement of the promise the entry point returned
    remoteByKey,          \* upload.ts: Map of the listing snapshot, insertion-ordered
    filesToProcess,       \* upload.ts: candidate files [file, s3Key, s3Params]
    localKeys,            \* upload.ts: Set of keys of enumerated local files
    keysToDelete,         \* upload.ts: keys handed to deleteObjectsByKeys
    totalOperations,      \* upload.ts: planned operations
    completedOperations,  \* upload.ts / metadata.ts: shared completed counter
    unit,                 \* state of each per-file unit of work under the limiter
    uploadReqs,           \* bag of upload requests issued in this pass
    del,                  \* the deleteObjectsByKeys call: loop index, requests, errors
    filesToSync,          \* metadata.ts: participating files [file, params]
    cp,                   \* copy.ts: per unit, the copyObjectWithMetadata call
    headSizes,            \* sizes the store may report for a head request
    hist,                 \* observations: what was in flight / issued around rejection
    tagging,              \* bucket-tags.ts: the bucket's tag set and the updateBucketTags call
    orch,                 \* sync-orchestrator.ts: the targets and the operations run over them
    lister,               \* list.ts: the listAllObjects generator, its requests and yields
    tracker               \* progress.ts: the tracker's last percentage and what it emitted

vars == << pathSep, options, localTree, bucket, op, run, pc, outcome,
           remoteByKey, filesToProcess, localKeys, keysToDelete,
           totalOperations, completedOperations, unit, uploadReqs, del,
           filesToSync, cp, headSizes, hist, tagging, orch, lister, tracker >>

----------------------------------------------------------------------------
(* Bounds of the model *)

MaxFiles == 2          \* local files of an uploadDirectory pass
MaxConcurrencyOpt == 2 \* largest maxConcurrency option explored

(* Program constants *)

DEFAULT_MAX_CONCURRENCY == 5
S3_DELETE_BATCH_SIZE == 1000
ONLY_FOR_STAGE_KEY == "OnlyForStage"

----------------------------------------------------------------------------
(* Strings as sequences of characters *)

DQ == "\""
None == "undefined"

Last(s) == s[Len(s)]

\* path.join of name segments (each a string) with one separator character
RECURSIVE JoinWith(_, _)
JoinWith(segs, sepChar) ==
    IF Len(segs) = 0 THEN << >>
    ELSE IF Len(segs) = 1 THEN Head(segs)
    ELSE Head(segs) \o << sepChar >> \o JoinWith(Tail(segs), sepChar)

\* String.prototype.split for a single separator character
RECURSIVE SplitAt(_, _, _)
SplitAt(s, ch, cur) ==
    IF Len(s) = 0 THEN << cur >>
    ELSE IF Head(s) = ch THEN << cur >> \o SplitAt(Tail(s), ch, << >>)
    ELSE SplitAt(Tail(s), ch, Append(cur, Head(s)))

Split(s, ch) == SplitAt(s, ch, << >>)

StartsWith(s, p) ==
    /\ Len(p) <= Len(s)
    /\ SubSeq(s, 1, Len(p)) = p

\* String.prototype.includes for a single character
Includes(s, ch) == \E i \in 1..Len(s) : s[i] = ch

SeqToSet(s) == { s[i] : i \in 1..Len(s) }

\* path.relative(localDir, localFile): the file's segments joined by path.sep
PathRelative(file) == JoinWith(file.segs, pathSep)

\* toS3Path that leaves the host's separators in place
toS3Path_keepSep(osPath) == osPath

\* toS3Path: every occurrence of path.sep becomes "/"
toS3Path(osPath) ==
    [ i \in 1..Len(osPath) |-> IF osPath[i] = pathSep THEN "/" ELSE osPath[i] ]

\* prefix.replace(/\/?$/, '/'): the prefix made to end in exactly the slash
\* it had, or a new one
WithTrailingSlash(p) ==
    IF Len(p) > 0 /\ Last(p) = "/" THEN p ELSE p \o << "/" >>

\* the s3Key expression of getFilesToProcess
S3KeyOf(prefix, normalizedPath) ==
    IF Len(prefix) > 0
    THEN WithTrailingSlash(prefix) \o normalizedPath
    ELSE normalizedPath

----------------------------------------------------------------------------
(* Content fingerprint and entity-tags *)

\* crypto md5, hex digest: an injective map on the contents of the model
Md5Hex(content) == IF content = "x" THEN << "1" >> ELSE << "2" >>

\* computeFileMD5 that forgets the quotes
computeFileMD5_unquoted(file) == Md5Hex(file.content)

\* computeFileMD5 resolves the digest wrapped in double quotes
computeFileMD5(file) == << DQ >> \o Md5Hex(file.content) \o << DQ >>

\* the tag the store assigns to what the streaming upload stored: the quoted
\* MD5 for a single put, a composite "<hex>-<parts>" tag for a multipart upload
StoreETag(file) ==
    IF file.large
    THEN << DQ >> \o Md5Hex(file.content) \o << "-", "2", DQ >>
    ELSE << DQ >> \o Md5Hex(file.content) \o << DQ >>

----------------------------------------------------------------------------
(* Glob matching (minimatch, default options) on "/"-separated paths *)

\* one path segment against one pattern segment; "*" matches any run of
\* characters, but a segment starting with "." only matches a pattern
\* segment that starts with "."
RECURSIVE SegGlob(_, _)
SegGlob(seg, pat) ==
    IF Len(pat) = 0 THEN Len(seg) = 0
    ELSE IF Head(pat) = "*"
         THEN \/ SegGlob(seg, Tail(pat))
              \/ (Len(seg) > 0 /\ SegGlob(Tail(seg), pat))
         ELSE Len(seg) > 0 /\ Head(seg) = Head(pat) /\ SegGlob(Tail(seg), Tail(pat))

SegMatch(seg, pat) ==
    /\ Len(seg) > 0
    /\ (Head(seg) = "." => (Len(pat) > 0 /\ Head(pat) = "."))
    /\ SegGlob(seg, pat)

\* "**" as a whole pattern segment matches any number of path segments
RECURSIVE SegsMatch(_, _)
SegsMatch(psegs, gsegs) ==
    IF Len(gsegs) = 0 THEN Len(psegs) = 0
    ELSE IF Head(gsegs) = << "*", "*" >>
         THEN \/ SegsMatch(psegs, Tail(gsegs))
              \/ /\ Len(psegs) > 0
                 /\ Len(Head(psegs)) > 0
                 /\ Head(Head(psegs)) # "."
                 /\ SegsMatch(Tail(psegs), gsegs)
         ELSE /\ Len(psegs) > 0
              /\ SegMatch(Head(psegs), Head(gsegs))
              /\ SegsMatch(Tail(psegs), Tail(gsegs))

\* on a host whose separator is "\\" minimatch first turns the separators of
\* the path (not of the pattern) into "/"
HostSlashes(p) ==
    [ i \in 1..Len(p) |-> IF p[i] = pathSep THEN "/" ELSE p[i] ]

minimatch(p, glob) == SegsMatch(Split(HostSlashes(p), "/"), Split(glob, "/"))

----------------------------------------------------------------------------
(* Parameter resolver *)

EmptyParams == [ k \in {} |-> "" ]

\* an assign that keeps the target's value for a key both objects have
ObjectAssign_keepFirst(target, source) ==
    [ k \in (DOMAIN target) \cup (DOMAIN source) |->
        IF k \in DOMAIN target THEN target[k] ELSE source[k] ]

\* Object.assign(target, source)
ObjectAssign(target, source) ==
    [ k \in (DOMAIN target) \cup (DOMAIN source) |->
        IF k \in DOMAIN source THEN source[k] ELSE target[k] ]

\* a delete that leaves the object as it is
DeleteKey_keep(obj, key) == obj

\* delete obj[key]
DeleteKey(obj, key) == [ k \in (DOMAIN obj) \ { key } |-> obj[k] ]

\* JavaScript truthiness of obj[key] for string-valued maps
Truthy(obj, key) == key \in DOMAIN obj /\ obj[key] # ""

\* a loop in which a rule without the restriction key leaves a restriction
\* recorded from an earlier rule in place
RECURSIVE ResolveLoop_keepRestriction(_, _, _)
ResolveLoop_keepRestriction(relativePath, rules, acc) ==
    IF Len(rules) = 0 THEN acc
    ELSE LET param == Head(rules) IN
         IF minimatch(relativePath, param.glob)
         THEN ResolveLoop_keepRestriction(relativePath, Tail(rules),
                 [ s3Params |-> ObjectAssign(acc.s3Params, param.params),
                   onlyForStage |->
                       IF Truthy(param.params, ONLY_FOR_STAGE_KEY)
                       THEN param.params[ONLY_FOR_STAGE_KEY]
                       ELSE acc.onlyForStage,
                   hasMatch |-> TRUE ])
         ELSE ResolveLoop_keepRestriction(relativePath, Tail(rules), acc)

\* the for-loop of resolveS3Params over the rule list
RECURSIVE ResolveLoop(_, _, _)
ResolveLoop(relativePath, rules, acc) ==
    IF Len(rules) = 0 THEN acc
    ELSE LET param == Head(rules) IN
         IF minimatch(relativePath, param.glob)
         THEN ResolveLoop(relativePath, Tail(rules),
                 [ s3Params |-> ObjectAssign(acc.s3Params, param.params),
                   onlyForStage |->
                       IF Truthy(param.params, ONLY_FOR_STAGE_KEY)
                       THEN param.params[ONLY_FOR_STAGE_KEY]
                       ELSE None,
                   hasMatch |-> TRUE ])
         ELSE ResolveLoop(relativePath, Tail(rules), acc)

\* resolveS3Params: [skip |-> TRUE] stands for the null result
resolveS3Params(relativePath, params, stage, skipUnmatched) ==
    IF Len(params) = 0
    THEN [ skip |-> skipUnmatched, s3Params |-> EmptyParams ]
    ELSE LET r == ResolveLoop(relativePath, params,
                     [ s3Params |-> EmptyParams, onlyForStage |-> None,
                       hasMatch |-> FALSE ])
         IN IF skipUnmatched /\ ~r.hasMatch
            THEN [ skip |-> TRUE, s3Params |-> EmptyParams ]
            ELSE IF r.onlyForStage # None /\ r.onlyForStage # stage
                 THEN [ skip |-> TRUE, s3Params |-> EmptyParams ]
                 ELSE [ skip |-> FALSE,
                        s3Params |-> DeleteKey(r.s3Params, ONLY_FOR_STAGE_KEY) ]

----------------------------------------------------------------------------
(* The environment of one call: host, local tree, bucket *)

NameChars == << "a", "d", "b", "c", "e", "f", "g", "h", "i", "j" >>

\* the i-th regular file of the tree universe: "a", "d/a", "b", "c", ...
FileSegs(i) ==
    IF i = 2 THEN << << "d" >>, << "a" >> >> ELSE << << NameChars[i] >> >>

Prefixes == { << >>, << "p" >>, << "p", "/" >> }

Stages == { None, "prod" }

\* rule lists (ParamMatcher[]) explored by the upload engine
RuleRestrictA == [ glob |-> << "a" >>, params |-> [ OnlyForStage |-> "prod" ] ]
RuleRestrictAll ==
    [ glob |-> << "*", "*", "/", "*" >>,
      params |-> [ OnlyForStage |-> "prod", CacheControl |-> "c1" ] ]
RuleCacheA == [ glob |-> << "a" >>, params |-> [ CacheControl |-> "c2" ] ]

ParamChoices ==
    { << >>, << RuleRestrictA >>, << RuleRestrictAll, RuleCacheA >> }

\* entity-tags a listed object may carry: the MD5 of content "x", another
\* MD5, and a composite (multipart) tag
ListedETags ==
    { << DQ, "1", DQ >>, << DQ, "2", DQ >>, << DQ, "1", "-", "2", DQ >> }

TagOpts == { << >> } \cup ListedETags    \* << >>: no object at the key

\* files after "a" and "d/a" are plain extras: single-part, and either new
\* to the bucket or stored unchanged
ExtraFile(i) == i > 2
TagOptsAt(i) == IF ExtraFile(i) THEN { << >>, << DQ, "1", DQ >> } ELSE TagOpts

\* where the object of a local file sits in the bucket
EnvKey(prefix, segs) ==
    (IF Len(prefix) = 0 THEN << >>
     ELSE IF Last(prefix) = "/" THEN prefix ELSE prefix \o << "/" >>)
    \o JoinWith(segs, "/")

\* a key that has the raw prefix string as a leading substring
OrphanKey(prefix) == prefix \o << "z" >>

RECURSIVE ObjectsOf(_, _, _)
ObjectsOf(prefix, tree, tags) ==
    IF Len(tree) = 0 THEN << >>
    ELSE (IF Head(tags) = << >> THEN << >>
          ELSE << [ Key |-> EnvKey(prefix, Head(tree).segs), ETag |-> Head(tags) ] >>)
         \o ObjectsOf(prefix, Tail(tree), Tail(tags))

EmptyDel ==
    [ keys |-> << >>, i |-> 0, deleted |-> 0, state |-> "idle",
      requests |-> << >>, errors |-> {}, onBatch |-> << >> ]

\* no orchestrated operation in this behaviour
NoOrch == [ hook |-> "none" ]

\* no listAllObjects generator of its own in this behaviour
NoLister == [ state |-> "none" ]

\* createProgressTracker: let percent = 0, nothing emitted yet
NewTracker == [ percent |-> 0, emitted |-> << >> ]

\* Math.round((amount / total) * 10) * 10 for non-negative integers:
\* Math.round(x) is floor(x + 1/2)
RoundedPercent(amount, total) == ((20 * amount + total) \div (2 * total)) * 10

\* a test that also lets the last percentage through again
Exceeds_orEqual(current, percent) == current >= percent

\* if (current > percent)
Exceeds(current, percent) == current > percent

\* tracker.update(amount, total)
update(tr, amount, total) ==
    IF total = 0 THEN tr
    ELSE LET current == RoundedPercent(amount, total) IN
         IF Exceeds(current, tr.percent)
         THEN [ tr EXCEPT !.percent = current, !.emitted = Append(@, current) ]
         ELSE tr

\* no updateBucketTags call in this behaviour
NoTagging ==
    [ TagSet |-> << >>, before |-> << >>, tagsToUpdate |-> << >>,
      existingTagSet |-> << >>, gets |-> 0, puts |-> << >>,
      thrownByGet |-> << >>, rejectedWith |-> << >> ]

EmptyHist ==
    [ issuedAfterReject |-> FALSE, doneAfterReject |-> FALSE,
      firstPass |-> {}, dirErrors |-> 0 ]

\* the state of a call that has not started its first await
FreshCall ==
    /\ outcome = "pending"
    /\ remoteByKey = << >>
    /\ filesToProcess = << >>
    /\ localKeys = {}
    /\ keysToDelete = << >>
    /\ totalOperations = 0
    /\ completedOperations = 0
    /\ unit = << >>
    /\ uploadReqs = EmptyBag
    /\ del = EmptyDel
    /\ filesToSync = << >>
    /\ cp = << >>
    /\ hist = EmptyHist
    /\ tagging = NoTagging
    /\ orch = NoOrch
    /\ lister = NoLister
    /\ tracker = NewTracker

InitEnv(largeChoices, seps) ==
    /\ pathSep \in seps
    /\ \E n \in 0..MaxFiles :
         /\ ExtraFile(n) => pathSep = "/"   \* extras add no new path shape
         /\ \E lg \in [ 1..n -> largeChoices ] :
              /\ \A i \in 1..n : ExtraFile(i) => ~lg[i]
              /\ localTree = [ i \in 1..n |->
                   [ segs |-> FileSegs(i), content |-> "x", large |-> lg[i] ] ]
         /\ \E pfx \in Prefixes, dr \in BOOLEAN, mc \in 1..MaxConcurrencyOpt,
               ps \in ParamChoices, st \in Stages :
              /\ Len(ps) = 0 => st = None   \* no rule reads the stage
              /\ options = [ prefix |-> pfx, deleteRemoved |-> dr,
                           maxConcurrency |-> mc, params |-> ps, stage |-> st,
                           defaultContentType |-> None,
                           dirReadable |-> TRUE ]
         /\ \E tags \in [ 1..n -> TagOpts ], orphan \in BOOLEAN :
              /\ \A i \in 1..n : tags[i] \in TagOptsAt(i)
              /\ bucket = ObjectsOf(options.prefix, localTree, tags)
                       \o (IF orphan
                           THEN << [ Key |-> OrphanKey(options.prefix),
                                     ETag |-> << DQ, "2", DQ >> ] >>
                           ELSE << >>)

InitUpload ==
    /\ op = "upload"
    /\ run = 1
    /\ headSizes = {}
    /\ InitEnv({ FALSE }, { "/", "\\" })
    /\ pc = "list"
    /\ FreshCall

----------------------------------------------------------------------------
(* uploadDirectory *)

hostVars == << pathSep, options, localTree, op, run, headSizes, tagging, orch,
              lister >>
envVars == << hostVars, tracker >>
metaVars == << filesToSync, cp >>
planVars == << remoteByKey, filesToProcess, localKeys, keysToDelete,
               totalOperations >>

\* Map.prototype.set on an insertion-ordered map held as a sequence
MapSet(m, obj) ==
    IF \E j \in 1..Len(m) : m[j].Key = obj.Key
    THEN [ j \in 1..Len(m) |-> IF m[j].Key = obj.Key THEN obj ELSE m[j] ]
    ELSE Append(m, obj)

MapHas(m, key) == \E j \in 1..Len(m) : m[j].Key = key
MapGet(m, key) == m[CHOOSE j \in 1..Len(m) : m[j].Key = key]
MapKeys(m) == [ j \in 1..Len(m) |-> m[j].Key ]

\* listAllObjects: every object of the bucket whose key starts with the
\* prefix handed to the list request, in listing order
RECURSIVE listAllObjects(_, _)
listAllObjects(objs, prefix) ==
    IF Len(objs) = 0 THEN << >>
    ELSE (IF StartsWith(Head(objs).Key, prefix) THEN << Head(objs) >> ELSE << >>)
         \o listAllObjects(Tail(objs), prefix)

RECURSIVE MapFromSeq(_, _)
MapFromSeq(objs, m) ==
    IF Len(objs) = 0 THEN m
    ELSE MapFromSeq(Tail(objs), MapSet(m, Head(objs)))

getRemoteObjectsMap(prefix) == MapFromSeq(listAllObjects(bucket, prefix), << >>)

\* an enumerator without the access check on the root
getLocalFiles_noAccessCheck == [ files |-> localTree, errors |-> 0 ]

\* getLocalFiles(localDir, log): the regular files under the root in
\* enumeration order; a root that cannot be accessed gives one logged error
\* and no file
getLocalFiles ==
    IF options.dirReadable
    THEN [ files |-> localTree, errors |-> 0 ]
    ELSE [ files |-> << >>, errors |-> 1 ]

\* the loop of getFilesToProcess with localKeys.add moved after the
\* null test, so that excluded files are not recorded
RECURSIVE FilesLoop_addAfterSkip(_, _)
FilesLoop_addAfterSkip(idx, acc) ==
    IF idx > Len(getLocalFiles.files) THEN acc
    ELSE LET normalizedPath == toS3Path(PathRelative(localTree[idx]))
             s3Key == S3KeyOf(options.prefix, normalizedPath)
             r == resolveS3Params(normalizedPath, options.params,
                                  options.stage, FALSE)
         IN FilesLoop_addAfterSkip(idx + 1,
                [ localKeys |-> IF r.skip THEN acc.localKeys
                                ELSE acc.localKeys \cup { s3Key },
                  files |-> IF r.skip THEN acc.files
                            ELSE Append(acc.files,
                                   [ file |-> idx, s3Key |-> s3Key,
                                     s3Params |-> r.s3Params ]) ])

\* getFilesToProcess: one pass over the enumeration, building the candidate
\* list and the local-keys set
RECURSIVE FilesLoop(_, _)
FilesLoop(idx, acc) ==
    IF idx > Len(getLocalFiles.files) THEN acc
    ELSE LET normalizedPath == toS3Path(PathRelative(localTree[idx]))
             s3Key == S3KeyOf(options.prefix, normalizedPath)
             r == resolveS3Params(normalizedPath, options.params,
                                  options.stage, FALSE)
         IN FilesLoop(idx + 1,
                [ localKeys |-> acc.localKeys \cup { s3Key },
                  files |-> IF r.skip THEN acc.files
                            ELSE Append(acc.files,
                                   [ file |-> idx, s3Key |-> s3Key,
                                     s3Params |-> r.s3Params ]) ])

getFilesToProcess == FilesLoop(1, [ localKeys |-> {}, files |-> << >> ])

\* getKeysToDelete without the localKeys.has test
getKeysToDelete_noFilter(remoteKeys, lkeys, deleteRemoved) ==
    IF ~deleteRemoved THEN << >> ELSE remoteKeys

\* getKeysToDelete
getKeysToDelete(remoteKeys, lkeys, deleteRemoved) ==
    IF ~deleteRemoved THEN << >>
    ELSE SelectSeq(remoteKeys, LAMBDA k : k \notin lkeys)

\* await getRemoteObjectsMap(...)
ListRemote ==
    /\ op = "upload" /\ pc = "list"
    /\ remoteByKey' = getRemoteObjectsMap(options.prefix)
    /\ pc' = "plan"
    /\ UNCHANGED << envVars, metaVars, bucket, outcome, filesToProcess, localKeys,
                    keysToDelete, totalOperations, completedOperations, unit,
                    uploadReqs, del, hist >>

\* a list request fails: the call rejects before any plan exists
ListFail ==
    /\ op = "upload" /\ pc = "list"
    /\ pc' = "done"
    /\ outcome' = "rejected"
    /\ UNCHANGED << envVars, metaVars, bucket, planVars, completedOperations, unit,
                    uploadReqs, del, hist >>

\* await getFilesToProcess(...), getKeysToDelete(...), the totals, and the
\* synchronous filesToProcess.map(limit(...)) that queues every unit
Plan ==
    /\ op = "upload" /\ pc = "plan"
    /\ LET r == getFilesToProcess
           ktd == getKeysToDelete(MapKeys(remoteByKey), r.localKeys,
                                  options.deleteRemoved)
       IN /\ filesToProcess' = r.files
          /\ localKeys' = r.localKeys
          /\ keysToDelete' = ktd
          /\ totalOperations' = Len(r.files) + (IF Len(ktd) > 0 THEN 1 ELSE 0)
          /\ unit' = [ i \in 1..Len(r.files) |-> "queued" ]
    /\ completedOperations' = 0
    /\ pc' = "units"
    /\ hist' = [ hist EXCEPT !.dirErrors = @ + getLocalFiles.errors ]
    /\ UNCHANGED << envVars, metaVars, bucket, outcome, remoteByKey, uploadReqs, del >>

\* units that have started and not yet finished
InFlight(u) == { i \in DOMAIN u : u[i] \notin { "queued", "done", "failed" } }

\* a limiter that starts queued units regardless of the active count
MayStart_noLimit(i, n) ==
    /\ i \in DOMAIN unit
    /\ unit[i] = "queued"
    /\ \A j \in 1..(i - 1) : unit[j] # "queued"

\* pLimit(n): a queued unit starts when fewer than n units are active, in
\* the order the units were queued
MayStart(i, n) ==
    /\ i \in DOMAIN unit
    /\ unit[i] = "queued"
    /\ \A j \in 1..(i - 1) : unit[j] # "queued"
    /\ Cardinality(InFlight(unit)) < n

UploadRequest(entry) == [ Key |-> entry.s3Key, Params |-> entry.s3Params ]

NoteIssued == [ hist EXCEPT !.issuedAfterReject = @ \/ (outcome = "rejected") ]
NoteDone == [ hist EXCEPT !.doneAfterReject = @ \/ (outcome = "rejected") ]

\* the unit runs up to its first await: either the hash of the file (remote
\* object with a simple entity-tag) or the upload itself
StartUnit(i) ==
    /\ op = "upload" /\ pc \in { "units", "done" }
    /\ MayStart(i, options.maxConcurrency)
    /\ LET entry == filesToProcess[i]
           hasRemote == MapHas(remoteByKey, entry.s3Key)
           compare == /\ hasRemote
                      /\ MapGet(remoteByKey, entry.s3Key).ETag # << >>
                      /\ ~Includes(MapGet(remoteByKey, entry.s3Key).ETag, "-")
       IN IF compare
          THEN /\ unit' = [ unit EXCEPT ![i] = "hashing" ]
               /\ uploadReqs' = uploadReqs
          ELSE /\ unit' = [ unit EXCEPT ![i] = "uploading" ]
               /\ uploadReqs' = uploadReqs (+) SetToBag({ UploadRequest(entry) })
    /\ hist' = NoteIssued
    /\ UNCHANGED << envVars, metaVars, bucket, pc, outcome, planVars,
                    completedOperations, del >>

\* a counter update that keeps the value read before the unit's await
Increment_stale(n) == IF n > 0 THEN n ELSE n + 1

\* completedOperations++: read and write with no await between them
Increment(n) == n + 1

\* computeFileMD5 resolved: equal tags end the unit, otherwise it uploads
HashDone(i) ==
    /\ op = "upload"
    /\ i \in DOMAIN unit /\ unit[i] = "hashing"
    /\ LET entry == filesToProcess[i]
           localMD5 == computeFileMD5(localTree[entry.file])
       IN IF localMD5 = MapGet(remoteByKey, entry.s3Key).ETag
          THEN /\ unit' = [ unit EXCEPT ![i] = "done" ]
               /\ completedOperations' = Increment(completedOperations)
               /\ tracker' = update(tracker, Increment(completedOperations),
                                    totalOperations)
               /\ uploadReqs' = uploadReqs
               /\ hist' = NoteDone
          ELSE /\ unit' = [ unit EXCEPT ![i] = "uploading" ]
               /\ completedOperations' = completedOperations
               /\ tracker' = tracker
               /\ uploadReqs' = uploadReqs (+) SetToBag({ UploadRequest(entry) })
               /\ hist' = NoteIssued
    /\ UNCHANGED << hostVars, metaVars, bucket, pc, outcome, planVars, del >>

\* a unit threw and nobody is told: the call stays pending
UnitFailed_swallowed(i) ==
    /\ unit' = [ unit EXCEPT ![i] = "failed" ]
    /\ pc' = pc
    /\ outcome' = outcome
    /\ hist' = hist

\* a unit threw: Promise.all rejects at once, the call's promise with it;
\* the limiter and the other units are left as they are
UnitFailed(i) ==
    /\ unit' = [ unit EXCEPT ![i] = "failed" ]
    /\ pc' = "done"
    /\ outcome' = IF outcome = "pending" THEN "rejected" ELSE outcome
    /\ hist' = hist

\* computeFileMD5 rejected (the file could not be read)
HashFail(i) ==
    /\ op = "upload"
    /\ i \in DOMAIN unit /\ unit[i] = "hashing"
    /\ UnitFailed(i)
    /\ UNCHANGED << envVars, metaVars, bucket, planVars, completedOperations,
                    uploadReqs, del >>

\* the store's view after an upload of the file completed
PutObject(objs, key, etag) == MapSet(objs, [ Key |-> key, ETag |-> etag ])

\* await parallelUploads3.done() resolved
UploadDone(i) ==
    /\ op = "upload"
    /\ i \in DOMAIN unit /\ unit[i] = "uploading"
    /\ LET entry == filesToProcess[i] IN
         bucket' = PutObject(bucket, entry.s3Key, StoreETag(localTree[entry.file]))
    /\ unit' = [ unit EXCEPT ![i] = "done" ]
    /\ completedOperations' = Increment(completedOperations)
    /\ tracker' = update(tracker, Increment(completedOperations), totalOperations)
    /\ hist' = NoteDone
    /\ UNCHANGED << hostVars, metaVars, pc, outcome, planVars, uploadReqs, del >>

\* await parallelUploads3.done() rejected
UploadFail(i) ==
    /\ op = "upload"
    /\ i \in DOMAIN unit /\ unit[i] = "uploading"
    /\ UnitFailed(i)
    /\ UNCHANGED << envVars, metaVars, bucket, planVars, completedOperations,
                    uploadReqs, del >>

----------------------------------------------------------------------------
(* deleteObjectsByKeys, as awaited by uploadDirectory *)

\* a slice that also takes the element at its end index
Slice_inclusiveEnd(keys, from, to) ==
    SubSeq(keys, from + 1, IF to + 1 < Len(keys) THEN to + 1 ELSE Len(keys))

\* keys.slice(i, i + S3_DELETE_BATCH_SIZE)
Slice(keys, from, to) ==
    SubSeq(keys, from + 1, IF to < Len(keys) THEN to ELSE Len(keys))

BatchAt(keys, i) == Slice(keys, i, i + S3_DELETE_BATCH_SIZE)

\* the store after a delete request in which the keys of errs failed
DeleteObjects(objs, batch, errs) ==
    SelectSeq(objs, LAMBDA o : o.Key \notin (SeqToSet(batch) \ errs))

\* what the store may report as failed for one batch
ErrorChoices(batch) == { {}, { batch[1] } }

\* the delete phase entered as soon as every unit has started
UnitsAllDone_started == \A i \in DOMAIN unit : unit[i] # "queued"

\* await Promise.all(...) resolves: every unit's promise is fulfilled
UnitsAllDone == \A i \in DOMAIN unit : unit[i] = "done"

\* Promise.all resolved: every unit completed. The delete phase starts by
\* sending the first batch, or the call resolves when nothing is to delete
UnitsSettled ==
    /\ op = "upload" /\ pc = "units"
    /\ UnitsAllDone
    /\ IF Len(keysToDelete) > 0
       THEN /\ del' = [ keys |-> keysToDelete, i |-> 0, deleted |-> 0,
                        state |-> "inflight",
                        requests |-> << BatchAt(keysToDelete, 0) >>,
                        errors |-> {}, onBatch |-> << >> ]
            /\ pc' = "delete"
            /\ outcome' = outcome
       ELSE /\ del' = del
            /\ pc' = "done"
            /\ outcome' = "resolved"
    /\ UNCHANGED << envVars, metaVars, bucket, planVars, completedOperations, unit,
                    uploadReqs, hist >>

\* the loop body of deleteObjectsByKeys after its await: the response is
\* not inspected; the next batch is sent, or the call returns and
\* uploadDirectory counts the delete phase as one completed operation
DeleteResponse ==
    /\ op = "upload" /\ pc = "delete" /\ del.state = "inflight"
    /\ LET batch == del.requests[Len(del.requests)]
           nextI == del.i + S3_DELETE_BATCH_SIZE
       IN \E errs \in ErrorChoices(batch) :
            /\ bucket' = DeleteObjects(bucket, batch, errs)
            /\ IF nextI < Len(del.keys)
               THEN /\ del' = [ del EXCEPT !.i = nextI,
                                   !.deleted = @ + Len(batch),
                                   !.requests = Append(@, BatchAt(del.keys, nextI)),
                                   !.errors = @ \cup errs ]
                    /\ UNCHANGED << pc, outcome, completedOperations, tracker >>
               ELSE /\ del' = [ del EXCEPT !.i = nextI,
                                   !.deleted = @ + Len(batch),
                                   !.state = "resolved",
                                   !.errors = @ \cup errs ]
                    /\ completedOperations' = Increment(completedOperations)
                    /\ tracker' = update(tracker, Increment(completedOperations),
                                         totalOperations)
                    /\ pc' = "done"
                    /\ outcome' = "resolved"
    /\ UNCHANGED << hostVars, metaVars, planVars, unit, uploadReqs, hist >>

\* the delete request itself failed: s3Client.send threw
DeleteReject ==
    /\ op = "upload" /\ pc = "delete" /\ del.state = "inflight"
    /\ del' = [ del EXCEPT !.state = "rejected" ]
    /\ pc' = "done"
    /\ outcome' = "rejected"
    /\ UNCHANGED << envVars, metaVars, bucket, planVars, completedOperations, unit,
                    uploadReqs, hist >>

----------------------------------------------------------------------------
(* One pass of the upload engine *)

NextUpload ==
    \/ ListRemote
    \/ ListFail
    \/ Plan
    \/ \E i \in 1..(MaxFiles + 1) : StartUnit(i)
    \/ \E i \in 1..(MaxFiles + 1) : HashDone(i)
    \/ \E i \in 1..(MaxFiles + 1) : HashFail(i)
    \/ \E i \in 1..(MaxFiles + 1) : UploadDone(i)
    \/ \E i \in 1..(MaxFiles + 1) : UploadFail(i)
    \/ UnitsSettled
    \/ DeleteResponse
    \/ DeleteReject

SpecUpload == InitUpload /\ [][NextUpload]_vars

----------------------------------------------------------------------------
(* A second pass with the same arguments on the bucket the first one left *)

InitRerun ==
    /\ op = "upload"
    /\ run = 1
    /\ headSizes = {}
    /\ InitEnv(BOOLEAN, { "/" })
    /\ pc = "list"
    /\ FreshCall

\* the caller invokes uploadDirectory again after it resolved
Rerun ==
    /\ op = "upload" /\ run = 1
    /\ pc = "done" /\ outcome = "resolved"
    /\ run' = 2
    /\ pc' = "list"
    /\ outcome' = "pending"
    /\ remoteByKey' = << >>
    /\ filesToProcess' = << >>
    /\ localKeys' = {}
    /\ keysToDelete' = << >>
    /\ totalOperations' = 0
    /\ completedOperations' = 0
    /\ unit' = << >>
    /\ uploadReqs' = EmptyBag
    /\ del' = EmptyDel
    /\ hist' = [ EmptyHist EXCEPT
                   !.firstPass = { r.Key : r \in BagToSet(uploadReqs) } ]
    /\ tracker' = NewTracker
    /\ UNCHANGED << pathSep, options, localTree, op, bucket, headSizes, metaVars,
                   tagging, orch, lister >>

NextRerun == NextUpload \/ Rerun

SpecRerun == InitRerun /\ [][NextRerun]_vars

----------------------------------------------------------------------------
(* Byte counts: << MiB, bytes below one MiB >>, since object sizes exceed   *)
(* the integers the checker computes with                                  *)

MiB == 1024 * 1024

\* a comparison that also accepts equal sizes
BigLt_orEqual(a, b) == a[1] < b[1] \/ (a[1] = b[1] /\ a[2] <= b[2])

BigLt(a, b) == a[1] < b[1] \/ (a[1] = b[1] /\ a[2] < b[2])

BigAdd(a, b) ==
    IF a[2] + b[2] >= MiB
    THEN << a[1] + b[1] + 1, a[2] + b[2] - MiB >>
    ELSE << a[1] + b[1], a[2] + b[2] >>

BigPred(a) == IF a[2] > 0 THEN << a[1], a[2] - 1 >> ELSE << a[1] - 1, MiB - 1 >>

BigMin(a, b) == IF BigLt(b, a) THEN b ELSE a

S3_MAX_SIMPLE_COPY_SIZE == << 5 * 1024, 0 >>
S3_MULTIPART_COPY_PART_SIZE == << 500, 0 >>
S3_COPY_METADATA_DIRECTIVE == "REPLACE"

----------------------------------------------------------------------------
(* syncDirectoryMetadata: the participating files *)

DS_STORE == << ".", "D", "S", "_", "S", "t", "o", "r", "e" >>

\* extractMetaParams of a one-glob entry: a copy of the glob's parameters
extractMetaParams(param) == ObjectAssign(EmptyParams, param.params)

\* an inner loop that never looks at the stage
RECURSIVE RuleLoop_ignoreStage(_, _, _, _)
RuleLoop_ignoreStage(relativePath, rules, stage, acc) ==
    IF Len(rules) = 0 THEN acc
    ELSE LET param == Head(rules) IN
         IF Len(param.glob) > 0 /\ minimatch(relativePath, param.glob)
         THEN RuleLoop_ignoreStage(relativePath, Tail(rules), stage,
                 [ present |-> TRUE,
                   params |-> DeleteKey(extractMetaParams(param),
                                        ONLY_FOR_STAGE_KEY) ])
         ELSE RuleLoop_ignoreStage(relativePath, Tail(rules), stage, acc)

\* an inner loop in which a rule restricted to another stage removes the
\* file but the later rules are still looked at
RECURSIVE RuleLoop_noBreak(_, _, _, _)
RuleLoop_noBreak(relativePath, rules, stage, acc) ==
    IF Len(rules) = 0 THEN acc
    ELSE LET param == Head(rules) IN
         IF Len(param.glob) = 0
         THEN RuleLoop_noBreak(relativePath, Tail(rules), stage, acc)
         ELSE IF minimatch(relativePath, param.glob)
              THEN LET matchParams == extractMetaParams(param) IN
                   IF /\ Truthy(matchParams, ONLY_FOR_STAGE_KEY)
                      /\ matchParams[ONLY_FOR_STAGE_KEY] # stage
                   THEN RuleLoop_noBreak(relativePath, Tail(rules), stage,
                           [ present |-> FALSE, params |-> EmptyParams ])
                   ELSE RuleLoop_noBreak(relativePath, Tail(rules), stage,
                           [ present |-> TRUE,
                             params |-> DeleteKey(matchParams, ONLY_FOR_STAGE_KEY) ])
              ELSE RuleLoop_noBreak(relativePath, Tail(rules), stage, acc)

\* an inner loop that adds a matching rule's parameters to those already
\* stored for the file
RECURSIVE RuleLoop_merge(_, _, _, _)
RuleLoop_merge(relativePath, rules, stage, acc) ==
    IF Len(rules) = 0 THEN acc
    ELSE LET param == Head(rules) IN
         IF Len(param.glob) = 0
         THEN RuleLoop_merge(relativePath, Tail(rules), stage, acc)
         ELSE IF minimatch(relativePath, param.glob)
              THEN LET matchParams == extractMetaParams(param) IN
                   IF /\ Truthy(matchParams, ONLY_FOR_STAGE_KEY)
                      /\ matchParams[ONLY_FOR_STAGE_KEY] # stage
                   THEN [ present |-> FALSE, params |-> EmptyParams ]
                   ELSE RuleLoop_merge(relativePath, Tail(rules), stage,
                           [ present |-> TRUE,
                             params |-> ObjectAssign(acc.params,
                                 DeleteKey(matchParams, ONLY_FOR_STAGE_KEY)) ])
              ELSE RuleLoop_merge(relativePath, Tail(rules), stage, acc)

\* the inner loop of getFilesToSync over the rules, for one file; a rule
\* restricted to another stage removes the file and ends the loop
RECURSIVE RuleLoop(_, _, _, _)
RuleLoop(relativePath, rules, stage, acc) ==
    IF Len(rules) = 0 THEN acc
    ELSE LET param == Head(rules) IN
         IF Len(param.glob) = 0
         THEN RuleLoop(relativePath, Tail(rules), stage, acc)
         ELSE IF minimatch(relativePath, param.glob)
              THEN LET matchParams == extractMetaParams(param) IN
                   IF /\ Truthy(matchParams, ONLY_FOR_STAGE_KEY)
                      /\ matchParams[ONLY_FOR_STAGE_KEY] # stage
                   THEN [ present |-> FALSE, params |-> EmptyParams ]
                   ELSE RuleLoop(relativePath, Tail(rules), stage,
                           [ present |-> TRUE,
                             params |-> DeleteKey(matchParams, ONLY_FOR_STAGE_KEY) ])
              ELSE RuleLoop(relativePath, Tail(rules), stage, acc)

\* getFilesToSync: Array.from(fileMap.values())
RECURSIVE getFilesToSync(_)
getFilesToSync(idx) ==
    IF idx > Len(getLocalFiles.files) THEN << >>
    ELSE LET segs == localTree[idx].segs
             r == RuleLoop(PathRelative(localTree[idx]), options.params,
                           options.stage,
                           [ present |-> FALSE, params |-> EmptyParams ])
         IN (IF segs[Len(segs)] # DS_STORE /\ r.present
             THEN << [ file |-> idx, params |-> r.params ] >>
             ELSE << >>)
            \o getFilesToSync(idx + 1)

----------------------------------------------------------------------------
(* syncDirectoryMetadata: the arguments of each copy *)

BucketName == << "B" >>

\* bucketPrefix.replace(/\/?$/, '').replace(/^\/?/, '/') for a non-empty prefix
NormalizedPrefix(bucketPrefix) ==
    IF Len(bucketPrefix) = 0 THEN << >>
    ELSE LET noTail == IF Last(bucketPrefix) = "/"
                       THEN SubSeq(bucketPrefix, 1, Len(bucketPrefix) - 1)
                       ELSE bucketPrefix
         IN IF Len(noTail) > 0 /\ Head(noTail) = "/" THEN noTail
            ELSE << "/" >> \o noTail

BucketDir(bucketPrefix) == BucketName \o NormalizedPrefix(bucketPrefix) \o << "/" >>

\* encodeURIComponent on the characters of the model
EncodeChar(c) ==
    IF c = " " THEN << "%", "2", "0" >>
    ELSE IF c = "\\" THEN << "%", "5", "C" >>
    ELSE << c >>

\* encodeSpecialCharacters: every "/"-separated segment encoded, "/" kept
RECURSIVE encodeSpecialCharacters(_)
encodeSpecialCharacters(s) ==
    IF Len(s) = 0 THEN << >>
    ELSE (IF Head(s) = "/" THEN << "/" >> ELSE EncodeChar(Head(s)))
         \o encodeSpecialCharacters(Tail(s))

\* file.name.replace(resolvedLocalDir, bucketDir), normalised and encoded
CopySourceOf(file) ==
    encodeSpecialCharacters(
        toS3Path(BucketDir(options.prefix) \o PathRelative(file)))

\* file.name.replace(resolvedLocalDir, "<prefix without leading slash>/")
CopyKeyOf(file) ==
    LET np == NormalizedPrefix(options.prefix)
        dir == IF Len(np) > 0
               THEN (IF Head(np) = "/" THEN Tail(np) ELSE np) \o << "/" >>
               ELSE << >>
    IN encodeSpecialCharacters(toS3Path(dir \o PathRelative(file)))

\* mime.getType by the extension of the last name segment
mimeGetType(file) ==
    LET name == file.segs[Len(file.segs)] IN
    IF Len(name) >= 3 /\ name[Len(name) - 1] = "." /\ name[Len(name)] = "h"
    THEN "text/html" ELSE None

\* the contentType handed to copyObjectWithMetadata
MetaContentType(file) ==
    IF mimeGetType(file) # None THEN mimeGetType(file)
    ELSE options.defaultContentType

----------------------------------------------------------------------------
(* copyObjectWithMetadata, one call per unit of syncDirectoryMetadata *)

UploadIdOfStore == "u1"

Request(cmd, key) ==
    [ cmd |-> cmd, Bucket |-> BucketName, Key |-> key, CopySource |-> << >>,
      UploadId |-> None, PartNumber |-> 0, Range |-> << >>,
      Directive |-> None, ContentType |-> None, Params |-> EmptyParams,
      Parts |-> << >> ]

NewCopy(file, params) ==
    [ copySource |-> CopySourceOf(file), key |-> CopyKeyOf(file),
      contentType |-> MetaContentType(file), extraParams |-> params,
      objectSize |-> << 0, 0 >>, uploadId |-> None,
      start |-> << 0, 0 >>, partNumber |-> 1, parts |-> << >>,
      log |-> << >>, failedAt |-> None ]

Send(c, req) == [ c EXCEPT !.log = Append(@, req) ]

\* decodeURIComponent(copySource.split('/').slice(1).join('/')) on the
\* characters of the model
RECURSIVE DecodeChars(_)
DecodeChars(s) ==
    IF Len(s) = 0 THEN << >>
    ELSE IF Len(s) >= 3 /\ SubSeq(s, 1, 3) = << "%", "2", "0" >>
         THEN << " " >> \o DecodeChars(SubSeq(s, 4, Len(s)))
    ELSE IF Len(s) >= 3 /\ SubSeq(s, 1, 3) = << "%", "5", "C" >>
         THEN << "\\" >> \o DecodeChars(SubSeq(s, 4, Len(s)))
    ELSE << Head(s) >> \o DecodeChars(Tail(s))

SourceKeyOf(copySource) ==
    DecodeChars(JoinWith(Tail(Split(copySource, "/")), "/"))

HeadRequest(c) == Request("Head", SourceKeyOf(c.copySource))

CopyRequest(c) ==
    [ Request("Copy", c.key) EXCEPT
        !.CopySource = c.copySource,
        !.Directive = S3_COPY_METADATA_DIRECTIVE,
        !.ContentType = c.contentType,
        !.Params = c.extraParams ]

CreateRequest(c) ==
    [ Request("Create", c.key) EXCEPT
        !.ContentType = c.contentType,
        !.Params = c.extraParams ]

\* a range-copy request whose range always spans a whole part
PartRequest_wholePart(c) ==
    [ Request("PartCopy", c.key) EXCEPT
        !.UploadId = c.uploadId,
        !.PartNumber = c.partNumber,
        !.CopySource = c.copySource,
        !.Range = << c.start,
                     BigPred(BigAdd(c.start, S3_MULTIPART_COPY_PART_SIZE)) >> ]

\* the range-copy request of the loop body for the current start
PartRequest(c) ==
    [ Request("PartCopy", c.key) EXCEPT
        !.UploadId = c.uploadId,
        !.PartNumber = c.partNumber,
        !.CopySource = c.copySource,
        !.Range = << c.start,
                     BigMin(BigPred(BigAdd(c.start, S3_MULTIPART_COPY_PART_SIZE)),
                            BigPred(c.objectSize)) >> ]

CompleteRequest(c) ==
    [ Request("Complete", c.key) EXCEPT
        !.UploadId = c.uploadId,
        !.Parts = c.parts ]

AbortRequest(c) ==
    [ Request("Abort", c.key) EXCEPT !.UploadId = c.uploadId ]

\* the catch block that only rethrows
CatchBlock_rethrowOnly(c, step) ==
    [ phase |-> "failed", copy |-> [ c EXCEPT !.failedAt = step ] ]

\* the catch block: the abort request is sent and awaited before the throw
CatchBlock(c, step) ==
    [ phase |-> "abort",
      copy |-> Send([ c EXCEPT !.failedAt = step ], AbortRequest(c)) ]

\* the head of the for-loop: another range-copy, or the completion request
LoopOrComplete(c) ==
    IF BigLt(c.start, c.objectSize)
    THEN [ phase |-> "part", copy |-> Send(c, PartRequest(c)) ]
    ELSE [ phase |-> "complete", copy |-> Send(c, CompleteRequest(c)) ]

----------------------------------------------------------------------------
(* syncDirectoryMetadata *)

uploadVars == << remoteByKey, filesToProcess, localKeys, keysToDelete,
                 totalOperations, uploadReqs, del, bucket >>

\* await getFilesToSync(...) and the synchronous filesToSync.map(limit(...))
MetaPlan ==
    /\ op = "metadata" /\ pc = "plan"
    /\ LET fs == getFilesToSync(1) IN
         /\ filesToSync' = fs
         /\ unit' = [ i \in 1..Len(fs) |-> "queued" ]
         /\ cp' = [ i \in 1..Len(fs) |->
                      NewCopy(localTree[fs[i].file], fs[i].params) ]
    /\ completedOperations' = 0
    /\ pc' = "units"
    /\ hist' = [ hist EXCEPT !.dirErrors = @ + getLocalFiles.errors ]
    /\ UNCHANGED << envVars, uploadVars, outcome >>

\* the unit runs up to the first await of copyObjectWithMetadata: the head
\* request for the source object
MetaStart(i) ==
    /\ op = "metadata" /\ pc \in { "units", "done" }
    /\ MayStart(i, DEFAULT_MAX_CONCURRENCY)
    /\ unit' = [ unit EXCEPT ![i] = "head" ]
    /\ cp' = [ cp EXCEPT ![i] = Send(@, HeadRequest(@)) ]
    /\ hist' = NoteIssued
    /\ UNCHANGED << envVars, uploadVars, filesToSync, pc, outcome,
                    completedOperations >>

InPhase(i, phase) == op = "metadata" /\ i \in DOMAIN unit /\ unit[i] = phase

\* the head response arrived: objectSize = ContentLength ?? 0 picks the branch
HeadDone(i) ==
    /\ InPhase(i, "head")
    /\ \E size \in headSizes :
         LET c == [ cp[i] EXCEPT !.objectSize = size ] IN
         IF BigLt(size, S3_MAX_SIMPLE_COPY_SIZE)
         THEN /\ unit' = [ unit EXCEPT ![i] = "copy" ]
              /\ cp' = [ cp EXCEPT ![i] = Send(c, CopyRequest(c)) ]
         ELSE /\ unit' = [ unit EXCEPT ![i] = "create" ]
              /\ cp' = [ cp EXCEPT ![i] = Send(c, CreateRequest(c)) ]
    /\ hist' = NoteIssued
    /\ UNCHANGED << envVars, uploadVars, filesToSync, pc, outcome,
                    completedOperations >>

\* a request outside the try block failed: the unit throws
ThrowFrom(i, phase) ==
    /\ InPhase(i, phase)
    /\ UnitFailed(i)
    /\ UNCHANGED << envVars, uploadVars, metaVars, completedOperations >>

HeadFail(i) == ThrowFrom(i, "head")
CopyFail(i) == ThrowFrom(i, "copy")
CreateFail(i) == ThrowFrom(i, "create")

\* copyObjectWithMetadata returned: completed++ and the progress update
UnitCopied(i, phase) ==
    /\ InPhase(i, phase)
    /\ unit' = [ unit EXCEPT ![i] = "done" ]
    /\ completedOperations' = completedOperations + 1
    /\ hist' = NoteDone
    /\ UNCHANGED << envVars, uploadVars, filesToSync, cp, pc, outcome >>

CopyDone(i) == UnitCopied(i, "copy")
CompleteDone(i) == UnitCopied(i, "complete")

\* a step inside the try block moved on to the next request
Advance(i, r) ==
    /\ unit' = [ unit EXCEPT ![i] = r.phase ]
    /\ cp' = [ cp EXCEPT ![i] = r.copy ]
    /\ hist' = NoteIssued
    /\ UNCHANGED << envVars, uploadVars, filesToSync, pc, outcome,
                    completedOperations >>

\* the multipart upload was created: the loop starts at byte 0, part 1
CreateDone(i) ==
    /\ InPhase(i, "create")
    /\ Advance(i, LoopOrComplete([ cp[i] EXCEPT !.uploadId = UploadIdOfStore ]))

\* CopyPartResult.ETag of the response to the range-copy of part n
PartETag(n) == << "etag-part", n >>

\* a range-copy response arrived: parts.push, partNumber++, start += part size
PartDone(i) ==
    /\ InPhase(i, "part")
    /\ Advance(i, LoopOrComplete(
           [ cp[i] EXCEPT
               !.parts = Append(@, [ ETag |-> PartETag(cp[i].partNumber),
                                     PartNumber |-> cp[i].partNumber ]),
               !.partNumber = @ + 1,
               !.start = BigAdd(@, S3_MULTIPART_COPY_PART_SIZE) ]))

\* a request inside the try block failed: the catch block runs
Caught(i, phase, step) ==
    /\ InPhase(i, phase)
    /\ LET r == CatchBlock(cp[i], step) IN
         /\ cp' = [ cp EXCEPT ![i] = r.copy ]
         /\ IF r.phase = "failed"
            THEN UnitFailed(i)
            ELSE /\ unit' = [ unit EXCEPT ![i] = r.phase ]
                 /\ hist' = NoteIssued
                 /\ UNCHANGED << pc, outcome >>
    /\ UNCHANGED << envVars, uploadVars, filesToSync, completedOperations >>

PartFail(i) == Caught(i, "part", "part")
CompleteFail(i) == Caught(i, "complete", "complete")

\* the abort request settled: the caught error, or the abort's own, is thrown
AbortSettled(i, abortFailed) ==
    /\ InPhase(i, "abort")
    /\ cp' = [ cp EXCEPT ![i].failedAt = IF abortFailed THEN "abort" ELSE @ ]
    /\ UnitFailed(i)
    /\ UNCHANGED << envVars, uploadVars, filesToSync, completedOperations >>

AbortDone(i) == AbortSettled(i, FALSE)
AbortFail(i) == AbortSettled(i, TRUE)

\* Promise.all resolved: every copy completed
MetaSettled ==
    /\ op = "metadata" /\ pc = "units"
    /\ \A i \in DOMAIN unit : unit[i] = "done"
    /\ pc' = "done"
    /\ outcome' = "resolved"
    /\ UNCHANGED << envVars, uploadVars, metaVars, completedOperations, unit, hist >>

MaxMetaFiles == 6   \* local files of the wide syncDirectoryMetadata tree

RuleAll ==
    [ glob |-> << "*", "*", "/", "*" >>, params |-> [ CacheControl |-> "c1" ] ]

\* sizes a head request may report: none (0), the last size of the simple
\* path, the first of the multipart path, twelve whole parts, and the
\* 12 GiB of the multipart test
TWELVE_GB == << 12 * 1024, 0 >>

CopySizes ==
    { << 0, 0 >>, BigPred(S3_MAX_SIMPLE_COPY_SIZE), S3_MAX_SIMPLE_COPY_SIZE,
      << 12 * 500, 0 >>, TWELVE_GB }

MetaOptions(pfx, ps, st, dct) ==
    [ prefix |-> pfx, deleteRemoved |-> FALSE,
      maxConcurrency |-> DEFAULT_MAX_CONCURRENCY, params |-> ps, stage |-> st,
      defaultContentType |-> dct, dirReadable |-> TRUE ]

MetaTree(n) ==
    [ i \in 1..n |-> [ segs |-> FileSegs(i), content |-> "x", large |-> FALSE ] ]

\* many small objects under one rule that matches them all
InitMetaWide ==
    /\ pathSep = "/"
    /\ \E n \in 0..MaxMetaFiles : localTree = MetaTree(n)
    /\ options = MetaOptions(<< >>, << RuleAll >>, None, None)
    /\ headSizes = { << 1, 0 >> }

\* file names of the one-object tree: in a sub-directory, with a space,
\* with an extension mime knows, and plain
MetaNames ==
    { << << "d" >>, << "a" >> >>, << << "a", " ", "b" >> >>,
      << << "i", ".", "h" >> >>, << << "a" >> >> }

\* prefixes of a metadata sync: those of an upload, and one that starts
\* with a slash
MetaPrefixes == Prefixes \cup { << "/", "p" >> }

DefaultContentTypes == { None, "text/plain" }

\* one object of any size, every host, name, prefix and default type
InitMetaOne ==
    /\ pathSep \in { "/", "\\" }
    /\ \E segs \in MetaNames :
         localTree = << [ segs |-> segs, content |-> "x", large |-> FALSE ] >>
    /\ \E pfx \in MetaPrefixes, st \in Stages, dct \in DefaultContentTypes,
          ps \in { << RuleAll >>, << RuleRestrictAll >> } :
         options = MetaOptions(pfx, ps, st, dct)
    /\ headSizes = CopySizes

\* rules a configuration may list: restricted to a stage or not, matching
\* one file, every file or none, setting the same key or different keys
RuleEncAll ==
    [ glob |-> << "*", "*", "/", "*" >>, params |-> [ ContentEncoding |-> "gz" ] ]
RuleNoMatch == [ glob |-> << "q" >>, params |-> [ CacheControl |-> "c3" ] ]
RuleNoStageA ==
    [ glob |-> << "a" >>, params |-> [ OnlyForStage |-> "", Expires |-> "e1" ] ]

RuleUniverse ==
    { RuleRestrictA, RuleRestrictAll, RuleCacheA, RuleAll, RuleEncAll,
      RuleNoMatch, RuleNoStageA }

MaxRules == 2   \* longest rule list explored

RuleLists == UNION { [ 1..n -> RuleUniverse ] : n \in 0..MaxRules }

RuleStages == { None, "prod", "dev" }

\* small objects "a" and "d/a" under every rule list and stage
InitMetaRules ==
    /\ pathSep = "/"
    /\ \E n \in 1..2 : localTree = MetaTree(n)
    /\ \E ps \in RuleLists, st \in RuleStages :
         options = MetaOptions(<< >>, ps, st, None)
    /\ headSizes = { << 1, 0 >> }

InitMeta ==
    /\ op = "metadata"
    /\ run = 1
    /\ bucket = << >>
    /\ InitMetaWide \/ InitMetaOne \/ InitMetaRules
    /\ pc = "plan"
    /\ FreshCall

NextMeta ==
    \/ MetaPlan
    \/ MetaSettled
    \/ \E i \in 1..(MaxMetaFiles + 1) :
         \/ MetaStart(i)
         \/ HeadDone(i)
         \/ HeadFail(i)
         \/ CopyDone(i)
         \/ CopyFail(i)
         \/ CreateDone(i)
         \/ CreateFail(i)
         \/ PartDone(i)
         \/ PartFail(i)
         \/ CompleteDone(i)
         \/ CompleteFail(i)
         \/ AbortDone(i)
         \/ AbortFail(i)

SpecMeta == InitMeta /\ [][NextMeta]_vars

\* uploadDirectory over "a" and "d/a" under every rule list and stage; the
\* bucket holds an older "a" and one orphan
InitUploadRules ==
    /\ op = "upload"
    /\ run = 1
    /\ headSizes = {}
    /\ pathSep = "/"
    /\ \E n \in 1..2 : localTree = MetaTree(n)
    /\ \E ps \in RuleLists, st \in RuleStages :
         options = [ prefix |-> << >>, deleteRemoved |-> TRUE,
                     maxConcurrency |-> DEFAULT_MAX_CONCURRENCY,
                     params |-> ps, stage |-> st, defaultContentType |-> None,
                     dirReadable |-> TRUE ]
    /\ bucket = << [ Key |-> << "a" >>, ETag |-> << DQ, "2", DQ >> ],
                   [ Key |-> OrphanKey(<< >>), ETag |-> << DQ, "2", DQ >> ] >>
    /\ pc = "list"
    /\ FreshCall

\* both engines under every rule list
\* a metadata sync of the one-object tree or under the rule lists
InitMetaNarrow ==
    /\ op = "metadata"
    /\ run = 1
    /\ bucket = << >>
    /\ InitMetaOne \/ InitMetaRules
    /\ pc = "plan"
    /\ FreshCall

InitRules == InitUploadRules \/ InitMetaNarrow
SpecRules == InitRules /\ [][NextUpload \/ NextMeta]_vars

\* either engine, as the host may invoke it
InitEngines == InitUpload \/ InitMeta
NextEngines == NextUpload \/ NextMeta
SpecEngines == InitEngines /\ [][NextEngines]_vars

----------------------------------------------------------------------------
(* Observations used by the properties *)

RECURSIVE SumCopies(_, _)
SumCopies(B, S) ==
    IF S = {} THEN 0
    ELSE LET r == CHOOSE x \in S : TRUE
         IN CopiesIn(r, B) + SumCopies(B, S \ { r })

\* number of upload requests issued for a key in this pass
UploadCount(key) ==
    SumCopies(uploadReqs, { r \in BagToSet(uploadReqs) : r.Key = key })

\* number of delete requests of this pass that carry the key
DeleteCount(key) ==
    Cardinality({ b \in 1..Len(del.requests) :
                    \E j \in 1..Len(del.requests[b]) : del.requests[b][j] = key })

DeletedKeys ==
    UNION { SeqToSet(del.requests[b]) : b \in 1..Len(del.requests) }

NoRepeat(s) == \A i, j \in 1..Len(s) : s[i] = s[j] => i = j

SnapshotKeys == SeqToSet(MapKeys(remoteByKey))

\* the key of a local file as the enumeration and the prefix give it
KeyOfLocal(idx) == S3KeyOf(options.prefix, toS3Path(PathRelative(localTree[idx])))

EnumeratedKeys == { KeyOfLocal(idx) : idx \in 1..Len(localTree) }

\* the call got as far as building its plan
HasPlan ==
    \/ pc \in { "units", "delete" }
    \/ pc = "done" /\ (unit # << >> \/ outcome = "resolved" \/ del.state # "idle")

\* the parameter resolver returned no result for the file
StageExcluded(idx) ==
    resolveS3Params(toS3Path(PathRelative(localTree[idx])), options.params,
                    options.stage, FALSE).skip

----------------------------------------------------------------------------
(* C1 *)

\* C1: with deleteRemoved=true and every unit successful (the call resolved),
\* the keys sent in delete requests are exactly the keys of the listing
\* snapshot that are not keys of enumerated local files, each in exactly one
\* request; at no time is a key outside that set sent, or sent twice; with
\* deleteRemoved=false no delete request is ever issued.
C1_DeleteExactlyOrphans ==
    /\ ~options.deleteRemoved => del.requests = << >>
    /\ DeletedKeys \subseteq (SnapshotKeys \ EnumeratedKeys)
    /\ \A k \in DeletedKeys : DeleteCount(k) = 1
    /\ \A b \in 1..Len(del.requests) : NoRepeat(del.requests[b])
    /\ (outcome = "resolved" /\ options.deleteRemoved) =>
          DeletedKeys = SnapshotKeys \ EnumeratedKeys

\* a resolved pass that deleted an orphan and kept a listed key of a local file
C1_Witness ==
    /\ outcome = "resolved" /\ options.deleteRemoved
    /\ DeletedKeys # {}
    /\ SnapshotKeys \cap EnumeratedKeys # {}

----------------------------------------------------------------------------
(* C2 *)

\* the remote snapshot holds, at the key, a tag without "-" equal to the
\* file's quoted MD5
UnchangedRemotely(entry) ==
    /\ MapHas(remoteByKey, entry.s3Key)
    /\ LET tag == MapGet(remoteByKey, entry.s3Key).ETag
       IN /\ \A c \in 1..Len(tag) : tag[c] # "-"
          /\ tag = << DQ >> \o Md5Hex(localTree[entry.file].content) \o << DQ >>

\* C2: a candidate file whose remote object carries a simple entity-tag equal
\* to the file's quoted MD5 never gets an upload request; any other candidate
\* (no remote object, differing simple tag, composite tag) never gets more
\* than one, and has exactly one once its unit has completed.
C2_UploadIffChanged ==
    \A i \in DOMAIN unit :
        LET entry == filesToProcess[i] IN
        IF UnchangedRemotely(entry)
        THEN UploadCount(entry.s3Key) = 0
        ELSE /\ UploadCount(entry.s3Key) <= 1
             /\ unit[i] \in { "uploading", "done" } => UploadCount(entry.s3Key) = 1

\* a resolved pass in which one candidate was skipped on equal tags and
\* another was uploaded despite a composite tag at its key
C2_Witness ==
    /\ outcome = "resolved"
    /\ \E i \in DOMAIN unit :
          UnchangedRemotely(filesToProcess[i]) /\ unit[i] = "done"
    /\ \E j \in DOMAIN unit :
          /\ MapHas(remoteByKey, filesToProcess[j].s3Key)
          /\ Includes(MapGet(remoteByKey, filesToProcess[j].s3Key).ETag, "-")
          /\ UploadCount(filesToProcess[j].s3Key) = 1

----------------------------------------------------------------------------
(* C3 *)

\* C3 as stated: a stage-excluded file is not in the local-keys set, and a
\* remote object at its key is among the keys to delete when deleteRemoved
C3_ExcludedNotProtected ==
    pc \in { "units", "delete" } =>
      \A idx \in 1..Len(localTree) :
        StageExcluded(idx) =>
          /\ KeyOfLocal(idx) \notin localKeys
          /\ (options.deleteRemoved /\ KeyOfLocal(idx) \in SnapshotKeys)
                => KeyOfLocal(idx) \in SeqToSet(keysToDelete)

\* C3 amended: a stage-excluded file is not a candidate for upload but its
\* key is in the local-keys set, so a remote object at that key is never
\* among the keys to delete nor in any delete request.
C3_ExcludedStillProtected ==
    HasPlan =>
      \A idx \in 1..Len(localTree) :
        StageExcluded(idx) =>
          /\ KeyOfLocal(idx) \in localKeys
          /\ KeyOfLocal(idx) \notin SeqToSet(keysToDelete)
          /\ KeyOfLocal(idx) \notin DeletedKeys
          /\ \A i \in DOMAIN unit : filesToProcess[i].file # idx

\* a resolved pass with deleteRemoved that issued a delete request while a
\* stage-excluded file had an object at its key in the snapshot
C3_Witness ==
    /\ outcome = "resolved" /\ options.deleteRemoved
    /\ del.requests # << >>
    /\ \E idx \in 1..Len(localTree) :
          StageExcluded(idx) /\ KeyOfLocal(idx) \in SnapshotKeys

----------------------------------------------------------------------------
(* C4 *)

\* C4 as stated: the second of two passes issues no upload request at all
C4_RerunUploadsNothing == run = 2 => uploadReqs = EmptyBag

\* C4 amended: the second of two passes issues no upload request for any
\* file except those the first pass stored as multipart objects; such a file
\* carries a composite tag and gets exactly one upload request again.
C4_RerunUploadsOnlyMultipart ==
    run = 2 =>
      \A i \in DOMAIN unit :
        LET entry == filesToProcess[i] IN
        IF localTree[entry.file].large /\ entry.s3Key \in hist.firstPass
        THEN /\ UploadCount(entry.s3Key) <= 1
             /\ unit[i] = "done" => UploadCount(entry.s3Key) = 1
        ELSE UploadCount(entry.s3Key) = 0

\* a resolved second pass that skipped a file uploaded by the first pass
\* and uploaded a multipart-stored file again
C4_Witness ==
    /\ run = 2 /\ outcome = "resolved"
    /\ \E i \in DOMAIN unit :
          /\ ~localTree[filesToProcess[i].file].large
          /\ UploadCount(filesToProcess[i].s3Key) = 0
    /\ \E j \in DOMAIN unit :
          /\ localTree[filesToProcess[j].file].large
          /\ filesToProcess[j].s3Key \in hist.firstPass
          /\ UploadCount(filesToProcess[j].s3Key) = 1

----------------------------------------------------------------------------
(* C5 *)

\* C5 as stated: the key is the prefix string itself followed by the
\* "/"-joined relative path
C5_KeyIsRawPrefixPlusPath ==
    \A i \in DOMAIN filesToProcess :
        filesToProcess[i].s3Key =
            options.prefix \o JoinWith(localTree[filesToProcess[i].file].segs, "/")

\* C5 amended: the key of every candidate, the key on its upload request and
\* the keys of the local-keys set are the "/"-joined relative path, preceded
\* for a non-empty prefix by the prefix with a "/" appended unless it
\* already ends in one.
C5_KeyIsSlashedPrefixPlusPath ==
    /\ \A i \in DOMAIN filesToProcess :
          filesToProcess[i].s3Key =
              EnvKey(options.prefix, localTree[filesToProcess[i].file].segs)
    /\ \A r \in BagToSet(uploadReqs) :
          \E idx \in 1..Len(localTree) :
              r.Key = EnvKey(options.prefix, localTree[idx].segs)
    /\ HasPlan =>
          localKeys = { EnvKey(options.prefix, localTree[idx].segs) :
                          idx \in 1..Len(localTree) }

\* an upload was issued for a file in a sub-directory on a host whose
\* separator is not "/", under a prefix that lacks the trailing "/"
C5_Witness ==
    /\ pathSep # "/"
    /\ options.prefix = << "p" >>
    /\ \E i \in DOMAIN filesToProcess :
          /\ Len(localTree[filesToProcess[i].file].segs) > 1
          /\ UploadCount(filesToProcess[i].s3Key) = 1

----------------------------------------------------------------------------
(* C6 *)

\* C6: deleteObjectsByKeys never resolves when the store reported some key
\* of some batch as not deleted.
C6_NoSilentPartialDelete == del.state = "resolved" => del.errors = {}

----------------------------------------------------------------------------
(* C7 *)

\* C7: once the call has rejected because a unit failed, no unit of the call
\* is in flight and no request has been issued after the rejection.
C7_RejectsAfterSiblingsFinished ==
    (outcome = "rejected" /\ \E i \in DOMAIN unit : unit[i] = "failed") =>
        /\ InFlight(unit) = {}
        /\ ~hist.issuedAfterReject

----------------------------------------------------------------------------
(* C8 *)

\* C8: a unit in flight leaves that state only by its own completion or its
\* own failure, whatever happens to its siblings, and the call is rejected
\* (never resolved) as soon as and as long as some unit has failed.
C8_FailureLeavesSiblingsRunning ==
    /\ []((\E i \in DOMAIN unit : unit[i] = "failed") => outcome = "rejected")
    /\ [][\A i \in DOMAIN unit :
            (unit[i] \in { "hashing", "uploading" } /\ i \in DOMAIN unit') =>
               \/ unit'[i] = unit[i]
               \/ /\ \A j \in DOMAIN unit \ { i } : unit'[j] = unit[j]
                  /\ unit'[i] \in { "uploading", "done", "failed" }]_vars

\* the call was rejected by a failed unit while a sibling was in flight (no
\* unit was started after the rejection), and that sibling has since
\* completed
C8_Witness ==
    /\ outcome = "rejected"
    /\ \E i \in DOMAIN unit : unit[i] = "failed"
    /\ hist.doneAfterReject /\ ~hist.issuedAfterReject

----------------------------------------------------------------------------
(* C9 *)

LimitInForce ==
    IF op = "upload" THEN options.maxConcurrency ELSE DEFAULT_MAX_CONCURRENCY

\* C9: at every instant the number of units that have started and not yet
\* finished is at most the limit: maxConcurrency for uploadDirectory, 5 for
\* syncDirectoryMetadata.
C9_InFlightWithinLimit == Cardinality(InFlight(unit)) <= LimitInForce

\* syncDirectoryMetadata with five copies in flight and a sixth still queued
C9_Witness ==
    /\ op = "metadata"
    /\ Cardinality(InFlight(unit)) = DEFAULT_MAX_CONCURRENCY
    /\ \E i \in DOMAIN unit : unit[i] = "queued"

----------------------------------------------------------------------------
(* C10 *)

\* C10: when a range-copy or the completion request of the multipart path
\* has failed and the failure has reached the caller, the last request of
\* the call is the one abort request it sent, for the bucket, key and upload
\* id of the multipart upload it had initiated.
C10_AbortBeforeFailurePropagates ==
    \A i \in DOMAIN cp :
        (unit[i] = "failed" /\ cp[i].failedAt # None) =>
            LET log == cp[i].log
                last == log[Len(log)]
            IN /\ last.cmd = "Abort"
               /\ last.UploadId = UploadIdOfStore
               /\ Cardinality({ k \in 1..Len(log) : log[k].cmd = "Abort" }) = 1
               /\ \E k \in 1..(Len(log) - 1) :
                     /\ log[k].cmd = "Create"
                     /\ log[k].Bucket = last.Bucket
                     /\ log[k].Key = last.Key
               /\ log[Len(log) - 1].cmd \in { "PartCopy", "Complete" }

\* a copy whose second or later range-copy failed, seen after its failure
\* reached the caller
C10_Witness ==
    \E i \in DOMAIN cp :
        /\ unit[i] = "failed"
        /\ cp[i].failedAt = "part"
        /\ Len(cp[i].parts) >= 1

----------------------------------------------------------------------------
(* C11 *)

\* the commands of a copy's requests, in issue order
CmdsOf(c) == [ k \in 1..Len(c.log) |-> c.log[k].cmd ]

CountCmd(c, cmd) == Cardinality({ k \in 1..Len(c.log) : c.log[k].cmd = cmd })

\* the size the head response reported is below 5 GiB = 5 * 1024 MiB
BelowFiveGiB(size) == size[1] < 5 * 1024

\* C11: every copy starts with its one head request; once the size is known,
\* a size below 5 GiB is followed by exactly one copy request with directive
\* REPLACE and nothing else, and a size of 5 GiB or more by the initiation
\* of a multipart upload, range copies and (when the copy returned) the
\* completion, with no single copy request at all.
C11_SizeSelectsCopyPath ==
    \A i \in DOMAIN cp :
        LET c == cp[i] IN
        /\ unit[i] # "queued" => (c.log[1].cmd = "Head" /\ CountCmd(c, "Head") = 1)
        /\ unit[i] = "queued" => c.log = << >>
        /\ Len(c.log) >= 2 =>
             IF BelowFiveGiB(c.objectSize)
             THEN /\ CmdsOf(c) = << "Head", "Copy" >>
                  /\ c.log[2].Directive = "REPLACE"
             ELSE /\ CountCmd(c, "Copy") = 0
                  /\ c.log[2].cmd = "Create"
                  /\ CountCmd(c, "Create") = 1
                  /\ \A k \in 3..Len(c.log) :
                        c.log[k].cmd \in { "PartCopy", "Complete", "Abort" }
                  /\ unit[i] = "done" =>
                        /\ c.log[Len(c.log)].cmd = "Complete"
                        /\ CountCmd(c, "Complete") = 1
                        /\ CountCmd(c, "PartCopy") = Len(c.log) - 3
                        /\ CountCmd(c, "PartCopy") >= 1
        /\ unit[i] = "done" => Len(c.log) >= 2

\* a copy that returned after a head response of 5 GiB minus one byte
C11_Witness ==
    \E i \in DOMAIN cp :
        /\ unit[i] = "done"
        /\ cp[i].objectSize = << 5 * 1024 - 1, MiB - 1 >>
        /\ CmdsOf(cp[i]) = << "Head", "Copy" >>

----------------------------------------------------------------------------
(* deleteObjectsByKeys called on a list of keys of any length *)

MaxKeys == 2001   \* longest key list handed to deleteObjectsByKeys

\* the key list: n distinct keys, named by their position
KeyList(n) == [ k \in 1..n |-> k ]

InitDelete ==
    /\ op = "delete"
    /\ run = 1
    /\ pathSep = "/"
    /\ localTree = << >>
    /\ options = MetaOptions(<< >>, << >>, None, None)
    /\ bucket = << >>
    /\ headSizes = {}
    /\ pc = "call"
    /\ outcome = "pending"
    /\ remoteByKey = << >>
    /\ filesToProcess = << >>
    /\ localKeys = {}
    /\ \E n \in 0..MaxKeys : keysToDelete = KeyList(n)
    /\ totalOperations = 0
    /\ completedOperations = 0
    /\ unit = << >>
    /\ uploadReqs = EmptyBag
    /\ del = EmptyDel
    /\ filesToSync = << >>
    /\ cp = << >>
    /\ hist = EmptyHist
    /\ tagging = NoTagging
    /\ orch = NoOrch
    /\ lister = NoLister
    /\ tracker = NewTracker

callVars == << envVars, metaVars, bucket, planVars, completedOperations, unit,
               uploadReqs, hist >>

\* the call runs to its first await: the request of the first batch; with
\* no key the loop body never runs and the call returns
DeleteCall ==
    /\ op = "delete" /\ pc = "call"
    /\ IF 0 < Len(keysToDelete)
       THEN /\ del' = [ keys |-> keysToDelete, i |-> 0, deleted |-> 0,
                        state |-> "inflight",
                        requests |-> << BatchAt(keysToDelete, 0) >>,
                        errors |-> {}, onBatch |-> << >> ]
            /\ pc' = "delete"
            /\ outcome' = outcome
       ELSE /\ del' = [ EmptyDel EXCEPT !.state = "resolved" ]
            /\ pc' = "done"
            /\ outcome' = "resolved"
    /\ UNCHANGED callVars

\* the count set to the length of the batch instead of raised by it
DeletedAfter_reset(deleted, batch) == Len(batch)

\* deleted += batch.length
DeletedAfter(deleted, batch) == deleted + Len(batch)

\* the awaited request returned: deleted += batch.length and the call of
\* onBatch(deleted, keys.length), then the next iteration sends its batch
\* or the loop ends
DeleteNext ==
    /\ op = "delete" /\ pc = "delete" /\ del.state = "inflight"
    /\ LET batch == del.requests[Len(del.requests)]
           nextI == del.i + S3_DELETE_BATCH_SIZE
       IN \E errs \in ErrorChoices(batch) :
            IF nextI < Len(del.keys)
            THEN /\ del' = [ del EXCEPT !.i = nextI,
                                !.deleted = DeletedAfter(@, batch),
                                !.onBatch = Append(@, DeletedAfter(del.deleted, batch)),
                                !.requests = Append(@, BatchAt(del.keys, nextI)),
                                !.errors = @ \cup errs ]
                 /\ UNCHANGED << pc, outcome >>
            ELSE /\ del' = [ del EXCEPT !.i = nextI,
                                !.deleted = DeletedAfter(@, batch),
                                !.onBatch = Append(@, DeletedAfter(del.deleted, batch)),
                                !.state = "resolved",
                                !.errors = @ \cup errs ]
                 /\ pc' = "done"
                 /\ outcome' = "resolved"
    /\ UNCHANGED callVars

\* the awaited request threw
DeleteThrow ==
    /\ op = "delete" /\ pc = "delete" /\ del.state = "inflight"
    /\ del' = [ del EXCEPT !.state = "rejected" ]
    /\ pc' = "done"
    /\ outcome' = "rejected"
    /\ UNCHANGED callVars

NextDelete == DeleteCall \/ DeleteNext \/ DeleteThrow

SpecDelete == InitDelete /\ [][NextDelete]_vars

----------------------------------------------------------------------------
(* C12 *)

\* the keys of the requests sent so far, in issue order
RECURSIVE SentKeys(_)
SentKeys(reqs) ==
    IF Len(reqs) = 0 THEN << >>
    ELSE SentKeys(SubSeq(reqs, 1, Len(reqs) - 1)) \o reqs[Len(reqs)]

\* C12: the requests sent so far hold, in order, a leading part of the key
\* list, each at most 1000 keys and every one before the last exactly 1000;
\* when the call has returned they hold the whole list in ceil(n/1000)
\* requests (none for an empty list).
C12_BatchesOfAThousand ==
    op = "delete" =>
      LET reqs == del.requests
          n == Len(keysToDelete)
          sent == SentKeys(reqs)
      IN /\ \A b \in 1..Len(reqs) : Len(reqs[b]) >= 1 /\ Len(reqs[b]) <= 1000
         /\ \A b \in 1..(Len(reqs) - 1) : Len(reqs[b]) = 1000
         /\ Len(sent) <= n
         /\ sent = SubSeq(keysToDelete, 1, Len(sent))
         /\ del.state = "resolved" =>
              /\ sent = keysToDelete
              /\ Len(reqs) = (n + 999) \div 1000

\* 1500 keys were deleted in requests of 1000 and then 500 keys
C12_Witness ==
    /\ op = "delete" /\ del.state = "resolved"
    /\ Len(keysToDelete) = 1500
    /\ Len(del.requests) = 2
    /\ Len(del.requests[1]) = 1000 /\ Len(del.requests[2]) = 500

----------------------------------------------------------------------------
(* C13 *)

\* positions of the rules whose glob matches the file's relative path
MatchingRules(idx) ==
    { j \in 1..Len(options.params) :
        minimatch(toS3Path(PathRelative(localTree[idx])), options.params[j].glob) }

\* positions of the matching rules that define the key
Defining(idx, k) ==
    { j \in MatchingRules(idx) : k \in DOMAIN options.params[j].params }

LastOf(S) == CHOOSE j \in S : \A m \in S : m <= j

\* the metadata keys some matching rule defines
KeysDefined(idx) ==
    UNION { DOMAIN options.params[j].params : j \in MatchingRules(idx) }
        \ { ONLY_FOR_STAGE_KEY }

\* C13: the parameters resolved for a candidate file hold exactly the
\* metadata keys defined by the rules matching the file, each with the value
\* of the last matching rule that defines it; its upload request carries
\* these parameters.
C13_LastMatchingRuleWins ==
    op = "upload" =>
      /\ \A i \in DOMAIN filesToProcess :
           LET e == filesToProcess[i] IN
           /\ DOMAIN e.s3Params = KeysDefined(e.file)
           /\ \A k \in KeysDefined(e.file) :
                e.s3Params[k] =
                    options.params[LastOf(Defining(e.file, k))].params[k]
      /\ \A r \in BagToSet(uploadReqs) :
           \E i \in DOMAIN filesToProcess :
               r = [ Key |-> filesToProcess[i].s3Key,
                     Params |-> filesToProcess[i].s3Params ]

\* an upload was issued for a file for which two matching rules give
\* different values to one key, next to a non-matching rule or a key kept
\* from the earlier rule
C13_Witness ==
    /\ op = "upload"
    /\ \E i \in DOMAIN filesToProcess :
         LET e == filesToProcess[i] IN
         /\ UploadCount(e.s3Key) = 1
         /\ \E k \in KeysDefined(e.file) :
              \E j1, j2 \in Defining(e.file, k) :
                 /\ j1 < j2
                 /\ options.params[j1].params[k] # options.params[j2].params[k]
                 /\ e.s3Params[k] = options.params[j2].params[k]

----------------------------------------------------------------------------
(* C14 *)

\* the restriction of the last rule matching the file differs from the
\* active stage (no matching rule, or a last matching rule without a
\* restriction value, restricts nothing)
RestrictedAway(idx) ==
    /\ MatchingRules(idx) # {}
    /\ LET last == options.params[LastOf(MatchingRules(idx))].params IN
         /\ Truthy(last, ONLY_FOR_STAGE_KEY)
         /\ last[ONLY_FOR_STAGE_KEY] # options.stage

IsCandidate(idx) == \E i \in DOMAIN filesToProcess : filesToProcess[i].file = idx

----------------------------------------------------------------------------
(* C15 *)

\* C15: for a file whose restriction in effect (that of the last rule
\* matching it) differs from the active stage, set or not, uploadDirectory
\* issues no upload request and syncDirectoryMetadata issues no request at
\* all.
C15_RestrictedFileExcluded ==
    \A idx \in 1..Len(localTree) :
        RestrictedAway(idx) =>
            /\ op = "upload" => UploadCount(KeyOfLocal(idx)) = 0
            /\ op = "metadata" =>
                 /\ \A i \in DOMAIN filesToSync : filesToSync[i].file # idx
                 /\ \A i \in DOMAIN cp : cp[i].key # CopyKeyOf(localTree[idx])

\* a metadata sync without a stage that returned after copying one file and
\* leaving out another, matched last by a rule restricted to a stage
C15_Witness ==
    /\ op = "metadata" /\ outcome = "resolved"
    /\ options.stage = None
    /\ \E idx \in 1..Len(localTree) : RestrictedAway(idx)
    /\ \E i \in DOMAIN cp : unit[i] = "done" /\ CountCmd(cp[i], "Copy") = 1

----------------------------------------------------------------------------
(* C16 *)

\* C16: no upload request of uploadDirectory and no request of
\* syncDirectoryMetadata (copy, multipart initiation or any other) has
\* OnlyForStage among its parameters.
C16_RestrictionKeyNeverSent ==
    /\ \A r \in BagToSet(uploadReqs) : ONLY_FOR_STAGE_KEY \notin DOMAIN r.Params
    /\ \A i \in DOMAIN cp :
         \A k \in 1..Len(cp[i].log) :
            ONLY_FOR_STAGE_KEY \notin DOMAIN cp[i].log[k].Params

\* a multipart upload was initiated for a file whose only matching rule is
\* restricted to the active stage
C16_Witness ==
    /\ op = "metadata"
    /\ \E i \in DOMAIN cp :
         /\ CountCmd(cp[i], "Create") = 1
         /\ \E j \in MatchingRules(filesToSync[i].file) :
              /\ Truthy(options.params[j].params, ONLY_FOR_STAGE_KEY)
              /\ options.params[j].params[ONLY_FOR_STAGE_KEY] = options.stage

----------------------------------------------------------------------------
(* C17 *)

\* the file takes part in the metadata sync: exactly one unit, hence one
\* copy operation, exists for it
Participates(idx) ==
    Cardinality({ i \in DOMAIN filesToSync : filesToSync[i].file = idx }) = 1

\* C17: after the plan of syncDirectoryMetadata, a local file takes part
\* exactly when resolveS3Params with skipUnmatched = true returns a result
\* for its relative path under the same rule list and stage.
C17_SyncIffResolverResult ==
    (op = "metadata" /\ pc # "plan") =>
        \A idx \in 1..Len(localTree) :
            Participates(idx) <=>
                ~resolveS3Params(PathRelative(localTree[idx]), options.params,
                                 options.stage, TRUE).skip

----------------------------------------------------------------------------
(* C18 *)

\* the bucket a CopySource names: the text before its first "/"
SourceBucketOf(copySource) == Head(Split(copySource, "/"))

\* C18: every copy request of syncDirectoryMetadata names as its source the
\* object, in the same bucket, that has the request's destination key, and
\* that key is the key uploadDirectory gives the same file under the same
\* prefix.
C18_CopyOntoItselfAtUploadKey ==
    op = "metadata" =>
      \A i \in DOMAIN cp :
        \A k \in 1..Len(cp[i].log) :
          LET r == cp[i].log[k] IN
          r.cmd = "Copy" =>
            /\ SourceBucketOf(r.CopySource) = r.Bucket
            /\ SourceKeyOf(r.CopySource) = r.Key
            /\ r.Key = KeyOfLocal(filesToSync[i].file)

----------------------------------------------------------------------------
(* C19 *)

DEFAULT_CONTENT_TYPE == "application/octet-stream"

\* C19: every copy and every multipart initiation request of
\* syncDirectoryMetadata carries a content-type: the type detected from the
\* file's extension, else the default of the options, else
\* application/octet-stream.
C19_ContentTypeAlwaysSet ==
    op = "metadata" =>
      \A i \in DOMAIN cp :
        \A k \in 1..Len(cp[i].log) :
          LET r == cp[i].log[k]
              file == localTree[filesToSync[i].file]
          IN r.cmd \in { "Copy", "Create" } =>
               /\ r.ContentType # None
               /\ r.ContentType =
                    IF mimeGetType(file) # None THEN mimeGetType(file)
                    ELSE IF options.defaultContentType # None
                         THEN options.defaultContentType
                         ELSE DEFAULT_CONTENT_TYPE

----------------------------------------------------------------------------
(* syncBucketTags / updateBucketTags *)

MaxTags == 2   \* longest tag list of the bucket and of the configuration

TagKeys == { "a", "b", "c" }

\* tag lists with pairwise distinct keys (the store holds one tag per key,
\* an object literal one entry per key)
TagLists(values) ==
    { s \in UNION { [ 1..n -> [ Key : TagKeys, Value : values ] ] :
                    n \in 0..MaxTags } :
        \A i, j \in 1..Len(s) : i # j => s[i].Key # s[j].Key }

\* Array.prototype.find: index of the first tag with the key, 0 when none
FindTag(tagSet, key) ==
    IF \E i \in 1..Len(tagSet) : tagSet[i].Key = key
    THEN CHOOSE i \in 1..Len(tagSet) :
           /\ tagSet[i].Key = key
           /\ \A j \in 1..(i - 1) : tagSet[j].Key # key
    ELSE 0

\* every tag to merge is pushed, none overwrites
mergeTags_pushOnly(existingTagSet, tagsToMerge) == existingTagSet \o tagsToMerge

RECURSIVE mergeTags(_, _)
mergeTags(existingTagSet, tagsToMerge) ==
    IF Len(tagsToMerge) = 0 THEN existingTagSet
    ELSE LET tag == Head(tagsToMerge)
             existing == FindTag(existingTagSet, tag.Key)
         IN mergeTags(IF existing # 0
                      THEN [ existingTagSet EXCEPT ![existing].Value = tag.Value ]
                      ELSE Append(existingTagSet, tag),
                      Tail(tagsToMerge))

\* config.bucketTags: undefined, or an object held as its entries in
\* Object.keys order
NoBucketTags == [ defined |-> FALSE, entries |-> << >> ]

\* Object.keys(config.bucketTags).map(...).filter(tag => !!tag.Value)
TagsToUpdate(bucketTags) ==
    SelectSeq(bucketTags.entries, LAMBDA tag : tag.Value # "")

InitTags ==
    /\ op = "tags"
    /\ run = 1
    /\ pathSep = "/"
    /\ localTree = << >>
    /\ \E bt \in { NoBucketTags } \cup
                  { [ defined |-> TRUE, entries |-> e ] :
                    e \in TagLists({ "", "2", "3" }) } :
         options = [ bucketTags |-> bt ]
    /\ bucket = << >>
    /\ headSizes = {}
    /\ pc = "call"
    /\ outcome = "pending"
    /\ remoteByKey = << >>
    /\ filesToProcess = << >>
    /\ localKeys = {}
    /\ keysToDelete = << >>
    /\ totalOperations = 0
    /\ completedOperations = 0
    /\ unit = << >>
    /\ uploadReqs = EmptyBag
    /\ del = EmptyDel
    /\ filesToSync = << >>
    /\ cp = << >>
    /\ hist = EmptyHist
    /\ \E ts \in TagLists({ "1", "4" }) :
         tagging = [ NoTagging EXCEPT !.TagSet = ts, !.before = ts ]
    /\ orch = NoOrch
    /\ lister = NoLister
    /\ tracker = NewTracker

tagsVars == << pathSep, options, localTree, op, run, headSizes, metaVars, orch,
              lister, tracker,
               bucket, planVars, completedOperations, unit, uploadReqs, del,
               hist >>

\* the operation of syncBucketTags: nothing without config.bucketTags, else
\* the filtered tags go to updateBucketTags, which runs to its first await
TagsCall ==
    /\ op = "tags" /\ pc = "call"
    /\ IF ~options.bucketTags.defined
       THEN /\ pc' = "done"
            /\ outcome' = "resolved"
            /\ UNCHANGED tagging
       ELSE /\ tagging' = [ tagging EXCEPT
                              !.tagsToUpdate = TagsToUpdate(options.bucketTags),
                              !.gets = @ + 1 ]
            /\ pc' = "get"
            /\ UNCHANGED outcome
    /\ UNCHANGED tagsVars

\* mergeTags(existingTagSet, tagsToUpdate) and the put request
MergeAndPut(existingTagSet) ==
    LET merged == mergeTags(existingTagSet, tagging.tagsToUpdate)
    IN /\ tagging' = [ tagging EXCEPT !.existingTagSet = merged,
                                      !.puts = Append(@, merged) ]
       /\ pc' = "put"
       /\ UNCHANGED outcome

\* GetBucketTagging answered with the bucket's tags
TagsGetReturn ==
    /\ op = "tags" /\ pc = "get"
    /\ Len(tagging.TagSet) > 0
    /\ MergeAndPut(tagging.TagSet)
    /\ UNCHANGED tagsVars

\* errors of the store client: Error instances told apart by their name
NoSuchTagSetError == [ isError |-> TRUE, name |-> "NoSuchTagSet" ]
OtherErrors ==
    { [ isError |-> TRUE, name |-> "AccessDenied" ],
      [ isError |-> TRUE, name |-> "NoSuchBucket" ] }

\* err instanceof Error && err.name === 'NoSuchTagSet'
IsNoSuchTagSet_always(err) == TRUE

IsNoSuchTagSet(err) == err.isError /\ err.name = "NoSuchTagSet"

\* the catch block around the get request: start fresh, or rethrow
CatchGet(err) ==
    IF IsNoSuchTagSet(err)
    THEN LET merged == mergeTags(<< >>, tagging.tagsToUpdate)
         IN /\ tagging' = [ tagging EXCEPT !.existingTagSet = merged,
                                           !.puts = Append(@, merged),
                                           !.thrownByGet = << err >> ]
            /\ pc' = "put"
            /\ UNCHANGED outcome
    ELSE /\ tagging' = [ tagging EXCEPT !.thrownByGet = << err >>,
                                        !.rejectedWith = << err >> ]
         /\ pc' = "done"
         /\ outcome' = "rejected"

\* the bucket has no tags: the store throws NoSuchTagSet
TagsGetNoSuchTagSet ==
    /\ op = "tags" /\ pc = "get"
    /\ Len(tagging.TagSet) = 0
    /\ CatchGet(NoSuchTagSetError)
    /\ UNCHANGED tagsVars

\* GetBucketTagging threw another error
TagsGetThrow ==
    /\ op = "tags" /\ pc = "get"
    /\ \E err \in OtherErrors : CatchGet(err)
    /\ UNCHANGED tagsVars

\* PutBucketTagging returned: the bucket holds the tag set sent
TagsPutReturn ==
    /\ op = "tags" /\ pc = "put"
    /\ tagging' = [ tagging EXCEPT !.TagSet = tagging.puts[Len(tagging.puts)] ]
    /\ pc' = "done"
    /\ outcome' = "resolved"
    /\ UNCHANGED tagsVars

\* PutBucketTagging threw
TagsPutThrow ==
    /\ op = "tags" /\ pc = "put"
    /\ \E err \in OtherErrors :
         tagging' = [ tagging EXCEPT !.rejectedWith = << err >> ]
    /\ pc' = "done"
    /\ outcome' = "rejected"
    /\ UNCHANGED tagsVars

NextTags ==
    \/ TagsCall
    \/ TagsGetReturn
    \/ TagsGetNoSuchTagSet
    \/ TagsGetThrow
    \/ TagsPutReturn
    \/ TagsPutThrow

SpecTags == InitTags /\ [][NextTags]_vars

----------------------------------------------------------------------------
(* C20 *)

\* the configured value of a key, "" when the key is not configured
ConfiguredValue(key) ==
    LET bt == options.bucketTags.entries
    IN IF \E j \in 1..Len(bt) : bt[j].Key = key
       THEN bt[CHOOSE j \in 1..Len(bt) : bt[j].Key = key].Value
       ELSE ""

\* the tag list the claim describes, from the bucket's tags before the call
\* and the configured tags
ExpectedTagSet ==
    LET ex == tagging.before
        kept == [ i \in 1..Len(ex) |->
                    [ Key |-> ex[i].Key,
                      Value |-> IF ConfiguredValue(ex[i].Key) # ""
                                THEN ConfiguredValue(ex[i].Key)
                                ELSE ex[i].Value ] ]
        added == SelectSeq(options.bucketTags.entries,
                   LAMBDA tag : /\ tag.Value # ""
                                /\ \A i \in 1..Len(ex) : ex[i].Key # tag.Key)
    IN kept \o added

\* C20: updateBucketTags sends at most one put request, and it carries the
\* bucket's existing tags in their order, each with the configured value when
\* its key is configured with a non-empty value and unchanged otherwise,
\* followed by the configured non-empty tags with new keys in configured
\* order; once the put returned, the bucket holds that list.
C20_MergedTagsInOnePut ==
    (op = "tags" /\ options.bucketTags.defined) =>
      /\ Len(tagging.puts) <= 1
      /\ pc = "put" => Len(tagging.puts) = 1
      /\ \A k \in 1..Len(tagging.puts) :
           /\ tagging.puts[k] = ExpectedTagSet
           /\ \A i \in 1..Len(tagging.puts[k]) : tagging.puts[k][i].Value # ""
      /\ (pc = "done" /\ outcome = "resolved") =>
           /\ Len(tagging.puts) = 1
           /\ tagging.TagSet = ExpectedTagSet

\* existing [{a:1}], configured {a:2, b:3}: the bucket ends with [{a:2},{b:3}]
C20_Witness ==
    /\ op = "tags" /\ pc = "done" /\ outcome = "resolved"
    /\ tagging.before = << [ Key |-> "a", Value |-> "1" ] >>
    /\ options.bucketTags.entries = << [ Key |-> "a", Value |-> "2" ],
                                       [ Key |-> "b", Value |-> "3" ] >>
    /\ tagging.puts = << << [ Key |-> "a", Value |-> "2" ],
                            [ Key |-> "b", Value |-> "3" ] >> >>
    /\ tagging.TagSet = tagging.puts[1]

----------------------------------------------------------------------------
(* C21 *)

\* C21: when the get request of updateBucketTags throws NoSuchTagSet, the
\* call goes on with an empty existing set and puts exactly the tags it was
\* given; when the get throws any other error, the call rejects with that
\* same error and no put request is issued.
C21_NoTagsIsEmptyOtherErrorsRethrown ==
    (op = "tags" /\ Len(tagging.thrownByGet) > 0) =>
      LET err == tagging.thrownByGet[1]
      IN IF err = NoSuchTagSetError
         THEN /\ tagging.puts = << tagging.tagsToUpdate >>
              /\ pc \in { "put", "done" }
              /\ (pc = "done" /\ outcome = "resolved") =>
                   tagging.TagSet = tagging.tagsToUpdate
         ELSE /\ tagging.puts = << >>
              /\ pc = "done" /\ outcome = "rejected"
              /\ tagging.rejectedWith = << err >>
              /\ tagging.TagSet = tagging.before

\* a bucket without tags got the one configured tag
C21_Witness ==
    /\ op = "tags" /\ pc = "done" /\ outcome = "resolved"
    /\ tagging.thrownByGet = << NoSuchTagSetError >>
    /\ tagging.puts = << << [ Key |-> "a", Value |-> "2" ] >> >>
    /\ tagging.TagSet = << [ Key |-> "a", Value |-> "2" ] >>

----------------------------------------------------------------------------
(* SyncOrchestrator.execute and the plugin's hooks *)

MaxTargets == 2     \* bucket entries of custom.s3Ferry
MaxRequests == 2    \* store requests one operation issues for one target

DEFAULT_PRE_COMMAND_TIMEOUT == 120000

\* the operations a hook runs, in order (performFullSync for the
\* lifecycle hooks, one operation for each command)
HookOps(hook) ==
    IF hook = "full" THEN << "sync", "metadata", "tags" >> ELSE << hook >>

Hooks == { "full", "sync", "clear", "metadata", "tags" }

\* a bucket entry with nothing special: named, enabled, no pre-command,
\* with params and bucketTags
GoodTarget(i) ==
    [ valid |-> TRUE, enabled |-> TRUE, resolvable |-> TRUE,
      bucketName |-> IF i = 1 THEN "B1" ELSE "B2",
      preCommand |-> FALSE, params |-> TRUE, bucketTags |-> TRUE ]

\* the entries explored at position i: the plain one, each single departure
\* from it, and a disabled entry that defines a pre-command
TargetConfigs(i) ==
    IF i > 2 THEN { GoodTarget(i) }
    ELSE { GoodTarget(i),
           [ GoodTarget(i) EXCEPT !.valid = FALSE ],
           [ GoodTarget(i) EXCEPT !.enabled = FALSE ],
           [ GoodTarget(i) EXCEPT !.resolvable = FALSE ],
           [ GoodTarget(i) EXCEPT !.preCommand = TRUE ],
           [ GoodTarget(i) EXCEPT !.params = FALSE ],
           [ GoodTarget(i) EXCEPT !.bucketTags = FALSE ],
           [ GoodTarget(i) EXCEPT !.enabled = FALSE, !.preCommand = TRUE ] }

\* Promise.all(promises) fulfils when every promise did
AllFulfilled_any(sts) == \E t \in DOMAIN sts : sts[t] \in { "fulfilled", "skipped" }

AllFulfilled(sts) == \A t \in DOMAIN sts : sts[t] \in { "fulfilled", "skipped" }

SomeRejected(sts) == \E t \in DOMAIN sts : sts[t] = "rejected"

\* the synchronous part of rawBuckets.map(async (raw) => ...): parse, the
\* enabled check, and the call of getBucketName
MapStart(buckets) ==
    [ t \in 1..Len(buckets) |->
        IF ~buckets[t].valid THEN "rejected"
        ELSE IF ~buckets[t].enabled THEN "skipped"
        ELSE "naming" ]

\* the --bucket filter of execute
FilteredOut_never(optBucket, bucketName) == FALSE

FilteredOut(optBucket, bucketName) == optBucket # "" /\ bucketName # optBucket

\* execSync threw: a non-zero exit or the timeout
PreCommandThrows_never(result) == FALSE

PreCommandThrows(result) == result # "exit0"

\* the operation returns before calling its engine
ReturnsEarly(opName, config) ==
    \/ opName = "metadata" /\ ~config.params
    \/ opName = "tags" /\ ~config.bucketTags

\* what follows a settled target promise: Promise.all of the running execute
\* rejects with the first rejection, or fulfils when all fulfilled, and then
\* the hook goes on to its next operation or returns
RECURSIVE Settle(_)
Settle(o) ==
    IF o.hookOutcome # "pending" THEN o
    ELSE IF SomeRejected(o.st[o.phase])
    THEN [ o EXCEPT !.hookOutcome = "rejected" ]
    ELSE IF AllFulfilled(o.st[o.phase])
    THEN IF o.phase < Len(o.ops)
         THEN Settle([ o EXCEPT !.phase = o.phase + 1,
                                !.st[o.phase + 1] = MapStart(o.buckets) ])
         ELSE [ o EXCEPT !.hookOutcome = "resolved" ]
    ELSE o

InitOrch ==
    /\ op = "orch"
    /\ run = 1
    /\ pathSep = "/"
    /\ localTree = << >>
    /\ options = MetaOptions(<< >>, << >>, None, None)
    /\ bucket = << >>
    /\ headSizes = {}
    /\ pc = "hook"
    /\ outcome = "pending"
    /\ remoteByKey = << >>
    /\ filesToProcess = << >>
    /\ localKeys = {}
    /\ keysToDelete = << >>
    /\ totalOperations = 0
    /\ completedOperations = 0
    /\ unit = << >>
    /\ uploadReqs = EmptyBag
    /\ del = EmptyDel
    /\ filesToSync = << >>
    /\ cp = << >>
    /\ hist = EmptyHist
    /\ tagging = NoTagging
    /\ lister = NoLister
    /\ tracker = NewTracker
    /\ \E n \in 1..MaxTargets, hook \in Hooks, ob \in { "", "B1" } :
         \E bs \in [ 1..n -> UNION { TargetConfigs(i) : i \in 1..n } ] :
           /\ \A i \in 1..n : bs[i] \in TargetConfigs(i)
           /\ n > 2 => hook # "full"   \* more entries: the one-operation commands
           /\ orch = [ hook |-> hook, ops |-> HookOps(hook), phase |-> 0,
                       buckets |-> bs, optBucket |-> ob,
                       hookOutcome |-> "pending",
                       st |-> [ k \in 1..Len(HookOps(hook)) |->
                                  [ t \in 1..n |-> "unstarted" ] ],
                       reqs |-> [ k \in 1..Len(HookOps(hook)) |->
                                    [ t \in 1..n |-> 0 ] ],
                       pre |-> [ k \in 1..Len(HookOps(hook)) |->
                                   [ t \in 1..n |-> "none" ] ],
                       logged |-> [ k \in 1..Len(HookOps(hook)) |->
                                      [ t \in 1..n |-> FALSE ] ] ]

orchVars == << pathSep, options, localTree, op, run, headSizes, metaVars,
               bucket, planVars, completedOperations, unit, uploadReqs, del,
               hist, tagging, pc, outcome, lister, tracker >>

\* the hook calls its first operation: execute maps over the entries
HookStart ==
    /\ op = "orch" /\ orch.phase = 0
    /\ orch' = Settle([ orch EXCEPT !.phase = 1,
                                    !.st[1] = MapStart(orch.buckets) ])
    /\ UNCHANGED orchVars

\* getBucketName resolved: the filter, the pre-command, then the operation
\* up to its first await
NameResolved(t) ==
    /\ op = "orch" /\ orch.phase > 0
    /\ t \in DOMAIN orch.buckets
    /\ LET k == orch.phase
           config == orch.buckets[t]
       IN /\ orch.st[k][t] = "naming"
          /\ config.resolvable
          /\ IF FilteredOut(orch.optBucket, config.bucketName)
             THEN orch' = Settle([ orch EXCEPT !.st[k][t] = "skipped" ])
             ELSE \E result \in IF config.preCommand
                                THEN { "exit0", "nonzero", "timeout" }
                                ELSE { "none" } :
                    IF config.preCommand /\ PreCommandThrows(result)
                    THEN orch' = Settle([ orch EXCEPT
                                            !.pre[k][t] = result,
                                            !.logged[k][t] = TRUE,
                                            !.st[k][t] = "rejected" ])
                    ELSE orch' = Settle([ orch EXCEPT
                                            !.pre[k][t] = result,
                                            !.st[k][t] =
                                              IF ReturnsEarly(orch.ops[k], config)
                                              THEN "fulfilled"
                                              ELSE "running" ])
    /\ UNCHANGED orchVars

\* getBucketName rejected (no stack output under bucketNameKey)
NameFail(t) ==
    /\ op = "orch" /\ orch.phase > 0
    /\ t \in DOMAIN orch.buckets
    /\ orch.st[orch.phase][t] = "naming"
    /\ ~orch.buckets[t].resolvable
    /\ orch' = Settle([ orch EXCEPT !.st[orch.phase][t] = "rejected" ])
    /\ UNCHANGED orchVars

\* the engine of the operation sends a store request for the target
OpRequest(t) ==
    /\ op = "orch" /\ orch.phase > 0
    /\ t \in DOMAIN orch.buckets
    /\ orch.st[orch.phase][t] = "running"
    /\ orch.reqs[orch.phase][t] < MaxRequests
    /\ orch' = [ orch EXCEPT !.reqs[orch.phase][t] = @ + 1 ]
    /\ UNCHANGED orchVars

\* the engine resolved
OpDone(t) ==
    /\ op = "orch" /\ orch.phase > 0
    /\ t \in DOMAIN orch.buckets
    /\ orch.st[orch.phase][t] = "running"
    /\ orch' = Settle([ orch EXCEPT !.st[orch.phase][t] = "fulfilled" ])
    /\ UNCHANGED orchVars

\* the engine rejected (a store error)
OpFail(t) ==
    /\ op = "orch" /\ orch.phase > 0
    /\ t \in DOMAIN orch.buckets
    /\ orch.st[orch.phase][t] = "running"
    /\ orch.reqs[orch.phase][t] > 0
    /\ orch' = Settle([ orch EXCEPT !.st[orch.phase][t] = "rejected" ])
    /\ UNCHANGED orchVars

Targets == 1..MaxTargets

NextOrch ==
    \/ HookStart
    \/ \E t \in Targets : NameResolved(t)
    \/ \E t \in Targets : NameFail(t)
    \/ \E t \in Targets : OpRequest(t)
    \/ \E t \in Targets : OpDone(t)
    \/ \E t \in Targets : OpFail(t)

SpecOrch == InitOrch /\ [][NextOrch]_vars

----------------------------------------------------------------------------
(* C22 *)

\* nothing is left to happen: the hook settled and no target is in flight
Quiescent ==
    /\ orch.phase > 0
    /\ orch.hookOutcome # "pending"
    /\ \A t \in DOMAIN orch.buckets :
         orch.st[orch.phase][t] \notin { "naming", "running" }

\* the target takes part in the operations of the invocation
TakesPart(t) ==
    LET config == orch.buckets[t]
    IN /\ config.valid /\ config.enabled /\ config.resolvable
       /\ ~FilteredOut(orch.optBucket, config.bucketName)

\* C22: in a full sync, once everything settled, every participating target
\* that did not fail itself had its upload, its metadata sync and its tag
\* merge carried out to completion, whatever happened to its siblings.
C22_SiblingsGetAllTheirWork ==
    (op = "orch" /\ orch.hook = "full" /\ Quiescent) =>
      \A t \in DOMAIN orch.buckets :
        (/\ TakesPart(t)
         /\ \A k \in 1..Len(orch.ops) : orch.st[k][t] # "rejected")
        => \A k \in 1..Len(orch.ops) : orch.st[k][t] = "fulfilled"

----------------------------------------------------------------------------
(* C23 *)

\* C23: a target whose pre-command exited non-zero or timed out in an
\* operation is rejected with the failure logged and got no store request in
\* that operation; a target with a pre-command gets store requests only
\* after the command returned successfully.
C23_PreCommandGatesStoreRequests ==
    op = "orch" =>
      \A k \in 1..orch.phase : \A t \in DOMAIN orch.buckets :
        /\ orch.pre[k][t] \in { "nonzero", "timeout" } =>
             /\ orch.reqs[k][t] = 0
             /\ orch.st[k][t] = "rejected"
             /\ orch.logged[k][t]
        /\ (orch.buckets[t].preCommand /\ orch.st[k][t] \in { "running", "fulfilled" }) =>
             orch.pre[k][t] = "exit0"
        /\ (orch.buckets[t].preCommand /\ orch.reqs[k][t] > 0) =>
             orch.pre[k][t] = "exit0"

\* a pre-command timed out and the target was rejected without a request
\* while its sibling went on
C23_Witness ==
    /\ op = "orch" /\ orch.phase = 1 /\ Len(orch.buckets) = 2
    /\ orch.pre[1][1] = "timeout" /\ orch.st[1][1] = "rejected"
    /\ orch.reqs[1][1] = 0
    /\ orch.reqs[1][2] > 0

----------------------------------------------------------------------------
(* C24 *)

\* C24: in a full sync a metadata request is issued only when the upload of
\* every target has completed, and a tagging request only when the metadata
\* sync of every target has completed.
C24_UploadThenMetadataThenTags ==
    (op = "orch" /\ orch.hook = "full") =>
      \A k \in 2..orch.phase : \A t \in DOMAIN orch.buckets :
        orch.st[k][t] # "unstarted" =>
          \A j \in 1..(k - 1) : \A u \in DOMAIN orch.buckets :
            orch.st[j][u] \in { "fulfilled", "skipped" }

\* both targets were uploaded, then synced, and a tagging request is out
C24_Witness ==
    /\ op = "orch" /\ orch.hook = "full" /\ orch.phase = 3
    /\ Len(orch.buckets) = 2
    /\ \A t \in 1..2 : orch.reqs[1][t] > 0 /\ orch.reqs[2][t] > 0
    /\ orch.reqs[3][1] > 0

----------------------------------------------------------------------------
(* C25 *)

\* C25: in every operation, a target gets store requests or has its
\* pre-command run only if it is enabled and, with a --bucket option, its
\* bucket name is the option's.
C25_OnlyEnabledSelectedTargets ==
    op = "orch" =>
      \A k \in 1..orch.phase : \A t \in DOMAIN orch.buckets :
        (orch.reqs[k][t] > 0 \/ orch.pre[k][t] # "none") =>
          /\ orch.buckets[t].enabled
          /\ orch.optBucket # "" => orch.buckets[t].bucketName = orch.optBucket

\* --bucket B1: the first target got requests after its pre-command, the
\* second (B2) was passed over
C25_Witness ==
    /\ op = "orch" /\ orch.optBucket = "B1" /\ Len(orch.buckets) = 2
    /\ orch.buckets[1].preCommand /\ orch.pre[1][1] = "exit0"
    /\ orch.reqs[1][1] > 0
    /\ orch.buckets[2].enabled /\ orch.buckets[2].valid
    /\ orch.st[1][2] = "skipped" /\ orch.reqs[1][2] = 0
    /\ orch.hookOutcome = "resolved"

----------------------------------------------------------------------------
(* Trees with ignored names, roots that cannot be read *)

\* files of the trees: "a", ".DS_Store" and "d/.DS_Store"
DiskFiles ==
    << [ segs |-> << << "a" >> >>, content |-> "x", large |-> FALSE ],
       [ segs |-> << DS_STORE >>, content |-> "x", large |-> FALSE ],
       [ segs |-> << << "d" >>, DS_STORE >>, content |-> "x", large |-> FALSE ] >>

\* every tree made of some of them, in enumeration order
DiskTrees ==
    { SelectSeq(DiskFiles, LAMBDA f : f \in keep) :
        keep \in SUBSET { DiskFiles[i] : i \in 1..Len(DiskFiles) } }

RuleDotAny ==
    [ glob |-> << "*", "*", "/", ".", "*" >>, params |-> [ CacheControl |-> "c2" ] ]

\* uploadDirectory over such a tree; the bucket is empty or holds an older
\* "a", a ".DS_Store" and an orphan
InitUploadDisk ==
    /\ op = "upload"
    /\ run = 1
    /\ headSizes = {}
    /\ pathSep = "/"
    /\ localTree \in DiskTrees
    /\ \E pfx \in { << >>, << "p" >> }, dr \in BOOLEAN, readable \in BOOLEAN,
          ps \in { << >>, << RuleAll >> } :
         /\ options = [ prefix |-> pfx, deleteRemoved |-> dr,
                        maxConcurrency |-> DEFAULT_MAX_CONCURRENCY,
                        params |-> ps, stage |-> None,
                        defaultContentType |-> None, dirReadable |-> readable ]
         /\ bucket \in
              { << >>,
                << [ Key |-> EnvKey(pfx, << << "a" >> >>), ETag |-> << DQ, "2", DQ >> ],
                   [ Key |-> EnvKey(pfx, << DS_STORE >>), ETag |-> << DQ, "2", DQ >> ],
                   [ Key |-> EnvKey(pfx, << << "z" >> >>), ETag |-> << DQ, "2", DQ >> ] >> }
    /\ pc = "list"
    /\ FreshCall

\* syncDirectoryMetadata over such a tree
InitMetaDisk ==
    /\ op = "metadata"
    /\ run = 1
    /\ bucket = << >>
    /\ pathSep = "/"
    /\ localTree \in DiskTrees
    /\ \E readable \in BOOLEAN, ps \in { << RuleAll >>, << RuleAll, RuleDotAny >> } :
         options = [ MetaOptions(<< >>, ps, None, None) EXCEPT
                       !.dirReadable = readable ]
    /\ headSizes = CopySizes
    /\ pc = "plan"
    /\ FreshCall

InitDisk == InitUploadDisk \/ InitMetaDisk

SpecDisk == InitDisk /\ [][NextUpload \/ NextMeta]_vars

----------------------------------------------------------------------------
(* C26 *)

\* path.basename of a key or of a local file
BaseNameOfKey(key) == Last(Split(key, "/"))
BaseNameOfFile(file) == file.segs[Len(file.segs)]

\* C26: no file named .DS_Store, at any depth, is a candidate of
\* uploadDirectory or of syncDirectoryMetadata, and no upload or copy
\* request is issued for one.
C26_IgnoredFilesNeverSent ==
    /\ op = "upload" =>
         /\ \A i \in DOMAIN filesToProcess :
              BaseNameOfFile(localTree[filesToProcess[i].file]) # DS_STORE
         /\ \A r \in BagToSet(uploadReqs) : BaseNameOfKey(r.Key) # DS_STORE
    /\ op = "metadata" =>
         \A i \in DOMAIN filesToSync :
           BaseNameOfFile(localTree[filesToSync[i].file]) # DS_STORE

----------------------------------------------------------------------------
(* C29 *)

\* C29: with a root that cannot be read, uploadDirectory logs one error,
\* has no candidate and uploads nothing; with deleteRemoved every listed
\* key is handed to the delete phase (none without it); and the call is
\* rejected only by a failed list or delete request.
C29_UnreadableRootDeletesEverything ==
    (op = "upload" /\ ~options.dirReadable) =>
      /\ uploadReqs = EmptyBag
      /\ pc \notin { "list", "plan" } /\ ~(pc = "done" /\ hist.dirErrors = 0) =>
           /\ hist.dirErrors = 1
           /\ filesToProcess = << >>
           /\ localKeys = {}
           /\ keysToDelete = IF options.deleteRemoved
                             THEN MapKeys(remoteByKey) ELSE << >>
      /\ (del.state # "idle" /\ options.deleteRemoved) =>
           del.keys = MapKeys(remoteByKey)
      /\ outcome = "rejected" =>
           \/ hist.dirErrors = 0    \* the list request failed
           \/ del.state = "rejected"

\* unreadable root holding "a": the three listed objects were all deleted
C29_Witness ==
    /\ op = "upload" /\ ~options.dirReadable /\ options.deleteRemoved
    /\ Len(localTree) > 0
    /\ pc = "done" /\ outcome = "resolved"
    /\ hist.dirErrors = 1
    /\ Len(del.keys) = 3 /\ del.errors = {}
    /\ bucket = << >>

----------------------------------------------------------------------------
(* deleteDirectory *)

MaxListed == 2001   \* most objects under the prefix

\* numbers of objects under the prefix: around zero, one batch, two batches
ListedCounts == (0..2) \cup (999..1001) \cup (1999..MaxListed)

\* keys of a listing page the store may return
PageSizes == { 400, 1000 }

\* the objects under the prefix carry the keys 1..n; key 0 is an object of
\* the bucket outside the prefix
UnderPrefix(obj) == obj.Key > 0

\* what the list requests return in all: the objects under the prefix
Listing(objs) == SelectSeq(objs, UnderPrefix)

Min(a, b) == IF a < b THEN a ELSE b

\* keys the loop takes from the page before it next awaits, when the
\* batch length is only tested at the end of a page
TakeCount_wholePage(buffer, batch) == Len(buffer)

\* keys the loop takes from the page before it next awaits: up to a full
\* batch
TakeCount(buffer, batch) ==
    Min(Len(buffer), S3_DELETE_BATCH_SIZE - Len(batch))

InitClear ==
    /\ op = "clear"
    /\ run = 1
    /\ pathSep = "/"
    /\ localTree = << >>
    /\ options = MetaOptions(<< >>, << >>, None, None)
    /\ \E n \in ListedCounts, other \in BOOLEAN :
         bucket = (IF other THEN << [ Key |-> 0 ] >> ELSE << >>)
                  \o [ k \in 1..n |-> [ Key |-> k ] ]
    /\ headSizes = {}
    /\ pc = "call"
    /\ outcome = "pending"
    /\ remoteByKey = << >>
    /\ filesToProcess = << >>
    /\ localKeys = {}
    /\ keysToDelete = << >>
    /\ totalOperations = 0
    /\ completedOperations = 0
    /\ unit = << >>
    /\ uploadReqs = EmptyBag
    /\ \E ps \in PageSizes :
         del = [ state |-> "idle", requests |-> << >>, deleted |-> 0,
                 buffer |-> << >>, listed |-> << >>, lists |-> 0,
                 more |-> TRUE, pageSize |-> ps ]
    /\ filesToSync = << >>
    /\ cp = << >>
    /\ hist = EmptyHist
    /\ tagging = NoTagging
    /\ orch = NoOrch
    /\ lister = NoLister
    /\ tracker = NewTracker

clearVars == << envVars, metaVars, remoteByKey, filesToProcess, localKeys,
                totalOperations, completedOperations, unit, uploadReqs, hist >>

\* the for-await loop from the keys at hand to its next await: a delete
\* request for a full batch, the next list request, the delete request for
\* the rest, or the return
Drain(d, batch) ==
    LET take == TakeCount(d.buffer, batch)
        b == batch \o SubSeq(d.buffer, 1, take)
        rest == SubSeq(d.buffer, take + 1, Len(d.buffer))
        d1 == [ d EXCEPT !.buffer = rest ]
    IN IF Len(b) >= S3_DELETE_BATCH_SIZE \/ (Len(rest) = 0 /\ ~d.more /\ Len(b) > 0)
       THEN /\ del' = [ d1 EXCEPT !.state = "inflight",
                                  !.requests = Append(@, BatchAt(b, 0)) ]
            /\ keysToDelete' = b
            /\ pc' = "delete"
            /\ UNCHANGED outcome
       ELSE IF d.more
       THEN /\ del' = [ d1 EXCEPT !.lists = @ + 1 ]
            /\ keysToDelete' = b
            /\ pc' = "list"
            /\ UNCHANGED outcome
       ELSE /\ del' = [ d1 EXCEPT !.state = "resolved" ]
            /\ keysToDelete' = b
            /\ pc' = "done"
            /\ outcome' = "resolved"

\* deleteDirectory runs to the first list request
ClearCall ==
    /\ op = "clear" /\ pc = "call"
    /\ del' = [ del EXCEPT !.lists = 1 ]
    /\ pc' = "list"
    /\ UNCHANGED << clearVars, bucket, keysToDelete, outcome >>

\* a list response: the next page of the objects under the prefix
ClearPage ==
    /\ op = "clear" /\ pc = "list"
    /\ LET all == Listing(bucket)
           skip == Len(del.listed) - del.deleted
           page == SubSeq(all, skip + 1, Min(skip + del.pageSize, Len(all)))
           keys == [ i \in 1..Len(page) |-> page[i].Key ]
       IN Drain([ del EXCEPT !.buffer = keys,
                             !.listed = @ \o keys,
                             !.more = (skip + del.pageSize < Len(all)) ],
                keysToDelete)
    /\ UNCHANGED << clearVars, bucket >>

\* a list request failed
ClearListFail ==
    /\ op = "clear" /\ pc = "list"
    /\ del' = [ del EXCEPT !.state = "rejected" ]
    /\ pc' = "done"
    /\ outcome' = "rejected"
    /\ UNCHANGED << clearVars, bucket, keysToDelete >>

\* the delete request returned: the batch is gone from the store, the loop
\* goes on with an empty batch
ClearDeleted ==
    /\ op = "clear" /\ pc = "delete"
    /\ bucket' = DeleteObjects(bucket, keysToDelete, {})
    /\ Drain([ del EXCEPT !.deleted = @ + Len(keysToDelete) ], << >>)
    /\ UNCHANGED clearVars

\* the delete request failed
ClearDeleteFail ==
    /\ op = "clear" /\ pc = "delete"
    /\ del' = [ del EXCEPT !.state = "rejected" ]
    /\ pc' = "done"
    /\ outcome' = "rejected"
    /\ UNCHANGED << clearVars, bucket, keysToDelete >>

NextClear ==
    \/ ClearCall
    \/ ClearPage
    \/ ClearListFail
    \/ ClearDeleted
    \/ ClearDeleteFail

SpecClear == InitClear /\ [][NextClear]_vars

----------------------------------------------------------------------------
(* C27 *)

\* the keys of the delete requests sent so far, in issue order
RECURSIVE Flatten(_)
Flatten(reqs) ==
    IF Len(reqs) = 0 THEN << >>
    ELSE Flatten(SubSeq(reqs, 1, Len(reqs) - 1)) \o reqs[Len(reqs)]

\* C27: the delete requests of deleteDirectory carry, in listing order
\* (ascending, so each once), the keys listed so far that are not waiting in the current batch,
\* never more than 1000 in a request and never an empty request; when the
\* call returned they carry exactly the keys of the objects under the
\* prefix, and nothing was sent for an empty listing.
C27_EveryListedKeyDeletedOnce ==
    op = "clear" =>
      LET sent == Flatten(del.requests)
      IN /\ \A b \in 1..Len(del.requests) :
              Len(del.requests[b]) >= 1 /\ Len(del.requests[b]) <= 1000
         /\ Len(sent) <= Len(del.listed)
         /\ sent = SubSeq(del.listed, 1, Len(sent))
         /\ \A i \in 1..(Len(sent) - 1) : sent[i] < sent[i + 1]
         /\ \A i \in 1..Len(sent) : sent[i] > 0
         /\ (pc = "done" /\ outcome = "resolved") =>
              /\ sent = del.listed
              /\ Len(bucket) = 0 \/ (Len(bucket) = 1 /\ bucket[1].Key = 0)
              /\ Len(del.listed) = 0 => Len(del.requests) = 0

\* 2001 objects listed in pages of 400 went out in requests of 1000, 1000
\* and 1 keys, and the object outside the prefix is still there
C27_Witness ==
    /\ op = "clear" /\ pc = "done" /\ outcome = "resolved"
    /\ del.pageSize = 400 /\ Len(del.listed) = 2001
    /\ Len(del.requests) = 3
    /\ Len(del.requests[1]) = 1000 /\ Len(del.requests[3]) = 1
    /\ bucket = << [ Key |-> 0 ] >>

----------------------------------------------------------------------------
(* C28 *)

\* C28: in a call of uploadDirectory a delete request has been sent only
\* if every unit of the pass completed; while a delete request is in
\* flight no unit is hashing or uploading; and once a unit has failed no
\* delete request was or will be sent.
C28_DeleteOnlyAfterAllUnits ==
    op = "upload" =>
      /\ Len(del.requests) > 0 => \A i \in DOMAIN unit : unit[i] = "done"
      /\ del.state = "inflight" => InFlight(unit) = {}
      /\ (\E i \in DOMAIN unit : unit[i] = "failed") =>
           /\ Len(del.requests) = 0
           /\ del.state = "idle"

\* two files were uploaded and the request that deletes the orphan is in
\* flight
C28_Witness ==
    /\ op = "upload" /\ pc = "delete" /\ del.state = "inflight"
    /\ Len(unit) = 2
    /\ BagCardinality(uploadReqs) = 2
    /\ Len(del.requests) = 1

----------------------------------------------------------------------------
(* C30 *)

\* C30: with a non-empty prefix, every key uploadDirectory hands to a
\* delete request starts with the prefix in the form the upload keys are
\* built with, the prefix ending in "/".
C30_DeletedKeysUnderUploadPrefix ==
    (op = "upload" /\ Len(options.prefix) > 0) =>
      \A b \in 1..Len(del.requests) : \A k \in 1..Len(del.requests[b]) :
        StartsWith(del.requests[b][k], WithTrailingSlash(options.prefix))

----------------------------------------------------------------------------
(* C31 *)

\* the range-copy requests of a copy, in issue order
PartRequestsOf(c) == SelectSeq(c.log, LAMBDA r : r.cmd = "PartCopy")

\* C31: in a multipart copy the k-th range-copy request carries part number
\* k and is sent only when the k-1 before it were answered; the first range
\* starts at byte 0, each next one at the byte after the end of the one
\* before, every range but the last spans the part size and none ends
\* beyond byte S-1; the completion request comes after all of them, when
\* the last range ended at byte S-1, and lists the n parts in part-number
\* order, each with the entity-tag its response returned.
C31_PartsSequentialContiguous ==
    op = "metadata" =>
      \A i \in DOMAIN cp :
        LET c == cp[i]
            prs == PartRequestsOf(c)
            n == Len(prs)
        IN /\ \A k \in 1..n :
                /\ prs[k].PartNumber = k
                /\ prs[k].Range[1] =
                     (IF k = 1 THEN << 0, 0 >>
                      ELSE BigAdd(prs[k - 1].Range[2], << 0, 1 >>))
                /\ ~BigLt(BigPred(c.objectSize), prs[k].Range[2])
                /\ k < n => BigAdd(prs[k].Range[2], << 0, 1 >>)
                              = BigAdd(prs[k].Range[1], S3_MULTIPART_COPY_PART_SIZE)
           /\ unit[i] = "part" => Len(c.parts) = n - 1
           /\ unit[i] # "part" => Len(c.parts) \in { n, n - 1 }
           /\ \A k \in 1..Len(c.log) :
                c.log[k].cmd = "Complete" =>
                  /\ \A j \in (k + 1)..Len(c.log) : c.log[j].cmd # "PartCopy"
                  /\ Len(c.parts) = n
                  /\ n >= 1
                  /\ prs[n].Range[2] = BigPred(c.objectSize)
                  /\ c.log[k].Parts =
                       [ j \in 1..n |-> [ ETag |-> PartETag(j), PartNumber |-> j ] ]

\* a copy of 5 GiB completed: ten parts of 500 MiB and one of 120 MiB
C31_Witness ==
    \E i \in DOMAIN cp :
        /\ op = "metadata" /\ unit[i] = "done"
        /\ cp[i].objectSize = << 5 * 1024, 0 >>
        /\ Len(PartRequestsOf(cp[i])) = 11
        /\ PartRequestsOf(cp[i])[11].Range = << << 5000, 0 >>, << 5119, MiB - 1 >> >>

----------------------------------------------------------------------------
(* C32 *)

\* C32: a multipart copy of an object of 12 GiB whose completion request
\* was sent issued exactly three range-copy requests, for the bytes
\* 0-5368709119, 5368709120-10737418239 and 10737418240-12884901887, and
\* its completion request lists three parts.
C32_TwelveGiBInThreeParts ==
    op = "metadata" =>
      \A i \in DOMAIN cp :
        (cp[i].objectSize = TWELVE_GB /\ unit[i] \in { "complete", "done" }) =>
          LET prs == PartRequestsOf(cp[i]) IN
          /\ Len(prs) = 3
          /\ prs[1].Range = << << 0, 0 >>, << 5 * 1024 - 1, MiB - 1 >> >>
          /\ prs[2].Range = << << 5 * 1024, 0 >>, << 10 * 1024 - 1, MiB - 1 >> >>
          /\ prs[3].Range = << << 10 * 1024, 0 >>, << 12 * 1024 - 1, MiB - 1 >> >>
          /\ \A k \in 1..Len(cp[i].log) :
               cp[i].log[k].cmd = "Complete" => Len(cp[i].log[k].Parts) = 3

----------------------------------------------------------------------------
(* C33 *)

\* delete requests of the call that were sent and not yet answered: every
\* answer but a thrown one is followed by a call of onBatch
DeleteInFlight ==
    Len(del.requests) - Len(del.onBatch)
      - (IF del.state = "rejected" THEN 1 ELSE 0)

\* C33: in a call of deleteObjectsByKeys at most one delete request is
\* unanswered at any time, it is unanswered exactly while the call awaits,
\* and the values handed to onBatch are strictly increasing, by the length
\* of each answered batch.
C33_BatchesStrictlySequential ==
    op = "delete" =>
      /\ DeleteInFlight \in { 0, 1 }
      /\ DeleteInFlight = 1 <=> del.state = "inflight"
      /\ \A k \in 1..Len(del.onBatch) :
           /\ del.onBatch[k] > (IF k = 1 THEN 0 ELSE del.onBatch[k - 1])
           /\ del.onBatch[k] =
                (IF k = 1 THEN 0 ELSE del.onBatch[k - 1]) + Len(del.requests[k])

\* the third request of a call is in flight after onBatch got 1000 and 2000
C33_Witness ==
    /\ op = "delete" /\ del.state = "inflight"
    /\ Len(del.requests) = 3
    /\ del.onBatch = << 1000, 2000 >>

----------------------------------------------------------------------------
(* C34 *)

\* positions of the rules matching the file whose restriction value is set
\* and differs from the active stage
Mismatching(idx) ==
    { j \in MatchingRules(idx) :
        /\ Truthy(options.params[j].params, ONLY_FOR_STAGE_KEY)
        /\ options.params[j].params[ONLY_FOR_STAGE_KEY] # options.stage }

\* C34: once syncDirectoryMetadata has its plan, a file matched by some
\* rule whose restriction differs from the active stage takes no part,
\* whatever the rules after that one are: no unit exists for it and no
\* request carries its key.
C34_MismatchExcludesDespiteLaterRule ==
    (op = "metadata" /\ pc # "plan") =>
      \A idx \in 1..Len(localTree) :
        Mismatching(idx) # {} =>
          /\ \A i \in DOMAIN filesToSync : filesToSync[i].file # idx
          /\ \A i \in DOMAIN cp :
               \A k \in 1..Len(cp[i].log) :
                  cp[i].log[k].Key # CopyKeyOf(localTree[idx])

\* a sync returned after copying one file and leaving out another, which a
\* rule restricted to another stage matches before an unrestricted one
C34_Witness ==
    /\ op = "metadata" /\ outcome = "resolved"
    /\ \E i \in DOMAIN cp : unit[i] = "done" /\ CountCmd(cp[i], "Copy") = 1
    /\ \E idx \in 1..Len(localTree) :
         \E j \in Mismatching(idx) :
            \E m \in MatchingRules(idx) :
               /\ j < m
               /\ ONLY_FOR_STAGE_KEY \notin DOMAIN options.params[m].params

----------------------------------------------------------------------------
(* C35 *)

\* the metadata of a rule: its parameters without the restriction key
MetadataOfRule(j) == DeleteKey(options.params[j].params, ONLY_FOR_STAGE_KEY)

\* C35: the parameters stored for a file of the metadata sync, and carried
\* by its copy request or multipart initiation, are exactly the metadata of
\* the last rule in list order that matches the file.
C35_LastRuleReplacesMetadata ==
    op = "metadata" =>
      \A i \in DOMAIN filesToSync :
        LET idx == filesToSync[i].file
            expected == MetadataOfRule(LastOf(MatchingRules(idx)))
        IN /\ MatchingRules(idx) # {}
           /\ filesToSync[i].params = expected
           /\ i \in DOMAIN cp =>
                \A k \in 1..Len(cp[i].log) :
                   cp[i].log[k].cmd \in { "Copy", "Create" } =>
                      cp[i].log[k].Params = expected

\* a copy request went out for a file matched by two rules that define
\* different keys: it carries the later rule's key and not the earlier one's
C35_Witness ==
    /\ op = "metadata"
    /\ \E i \in DOMAIN cp :
         LET ms == MatchingRules(filesToSync[i].file) IN
         /\ CountCmd(cp[i], "Copy") = 1
         /\ \E j \in ms :
              /\ j < LastOf(ms)
              /\ \E k \in DOMAIN MetadataOfRule(j) :
                    /\ k \notin DOMAIN MetadataOfRule(LastOf(ms))
                    /\ k \notin DOMAIN cp[i].log[2].Params

----------------------------------------------------------------------------
(* listAllObjects *)

MaxPages == 3   \* most pages the store splits a listing into

\* NextContinuationToken of page k
TokenOf(k) == << "token", k >>

\* what the Contents of page k may be: absent, empty, one object, or an
\* entry without a key before an object
ContentChoices(k) ==
    { [ defined |-> FALSE, entries |-> << >> ],
      [ defined |-> TRUE, entries |-> << >> ],
      [ defined |-> TRUE,
        entries |-> << [ Key |-> << "f", k >>, ETag |-> << DQ, "1", DQ >> ] >> ],
      [ defined |-> TRUE,
        entries |-> << [ Key |-> << >>, ETag |-> << DQ, "2", DQ >> ],
                       [ Key |-> << "g", k >>, ETag |-> << >> ] >> ] }

\* page k of a listing the store splits into n pages: every page but the
\* last is truncated and names the next one
PageOf(k, n, contents) ==
    [ Contents |-> contents,
      IsTruncated |-> (k < n),
      NextContinuationToken |-> (IF k < n THEN TokenOf(k) ELSE << >>) ]

RECURSIVE PagesUpTo(_, _)
PagesUpTo(k, n) ==
    IF k = 0 THEN { << >> }
    ELSE { Append(ps, PageOf(k, n, c)) :
             ps \in PagesUpTo(k - 1, n), c \in ContentChoices(k) }

StorePages(n) == PagesUpTo(n, n)

\* the page the store returns for a request: the first one without a
\* token, otherwise the one after the page that handed out the token
PageFor(pages, token) ==
    IF token = << >> THEN pages[1]
    ELSE pages[(CHOOSE k \in DOMAIN pages : TokenOf(k) = token) + 1]

\* a test that lets every entry through
HasKey_any(obj) == TRUE

\* if (obj.Key)
HasKey(obj) == Len(obj.Key) > 0

\* the objects one response makes the generator yield
YieldsOf(response) ==
    IF response.Contents.defined
    THEN LET kept == SelectSeq(response.Contents.entries, HasKey)
         IN [ j \in 1..Len(kept) |-> [ Key |-> kept[j].Key, ETag |-> kept[j].ETag ] ]
    ELSE << >>

\* continuationToken = response.IsTruncated ? response.NextContinuationToken
\*                                          : undefined
NextToken(response) ==
    IF response.IsTruncated THEN response.NextContinuationToken ELSE << >>

InitList ==
    /\ op = "list"
    /\ run = 1
    /\ pathSep = "/"
    /\ localTree = << >>
    /\ options = MetaOptions(<< >>, << >>, None, None)
    /\ bucket = << >>
    /\ headSizes = {}
    /\ pc = "call"
    /\ outcome = "pending"
    /\ remoteByKey = << >>
    /\ filesToProcess = << >>
    /\ localKeys = {}
    /\ keysToDelete = << >>
    /\ totalOperations = 0
    /\ completedOperations = 0
    /\ unit = << >>
    /\ uploadReqs = EmptyBag
    /\ del = EmptyDel
    /\ filesToSync = << >>
    /\ cp = << >>
    /\ hist = EmptyHist
    /\ tagging = NoTagging
    /\ orch = NoOrch
    /\ tracker = NewTracker
    /\ \E n \in 1..MaxPages : \E ps \in StorePages(n) :
         lister = [ state |-> "created", pages |-> ps, requests |-> << >>,
                    responses |-> 0, yielded |-> << >>,
                    continuationToken |-> << >> ]

listVars == << pathSep, options, localTree, bucket, op, run,
               remoteByKey, filesToProcess, localKeys, keysToDelete,
               totalOperations, completedOperations, unit, uploadReqs, del,
               filesToSync, cp, headSizes, hist, tagging, orch, tracker >>

\* the consumer's first next(): the generator runs to its first list
\* request, sent without a continuation token
ListCall ==
    /\ op = "list" /\ pc = "call"
    /\ lister' = [ lister EXCEPT !.state = "awaiting",
                                 !.requests = << lister.continuationToken >> ]
    /\ pc' = "list"
    /\ UNCHANGED << listVars, outcome >>

\* a list response arrived: its keyed objects are yielded, the token is
\* taken, and the loop sends the next request or ends
ListPage ==
    /\ op = "list" /\ pc = "list"
    /\ LET response == PageFor(lister.pages, lister.requests[Len(lister.requests)])
           token == NextToken(response)
       IN IF Len(token) > 0
          THEN /\ lister' = [ lister EXCEPT
                                !.responses = @ + 1,
                                !.yielded = @ \o YieldsOf(response),
                                !.continuationToken = token,
                                !.requests = Append(@, token) ]
               /\ UNCHANGED << pc, outcome >>
          ELSE /\ lister' = [ lister EXCEPT
                                !.state = "returned",
                                !.responses = @ + 1,
                                !.yielded = @ \o YieldsOf(response),
                                !.continuationToken = token ]
               /\ pc' = "done"
               /\ outcome' = "resolved"
    /\ UNCHANGED listVars

\* a list request failed: the generator throws to its consumer
ListThrow ==
    /\ op = "list" /\ pc = "list"
    /\ lister' = [ lister EXCEPT !.state = "threw" ]
    /\ pc' = "done"
    /\ outcome' = "rejected"
    /\ UNCHANGED listVars

NextList == ListCall \/ ListPage \/ ListThrow

\* an awaited request is answered or fails: the generator always gets to
\* take its next step
SpecList == InitList /\ [][NextList]_vars /\ WF_vars(NextList)

----------------------------------------------------------------------------
(* C36 *)

\* the keyed objects of the first k pages, in page order
RECURSIVE KeyedObjectsOf(_, _)
KeyedObjectsOf(pages, k) ==
    IF k = 0 THEN << >>
    ELSE KeyedObjectsOf(pages, k - 1)
         \o (IF pages[k].Contents.defined
             THEN SelectSeq(pages[k].Contents.entries, LAMBDA o : o.Key # << >>)
             ELSE << >>)

\* what holds of the generator in every state: the k-th request carries the
\* token of response k-1 (none for the first), requests and responses
\* alternate, no request follows a response that reported no further page,
\* and the objects yielded are the keyed objects of the answered pages
ListedInOrder ==
    op = "list" =>
      LET n == Len(lister.requests)
      IN /\ n >= 1 => lister.requests[1] = << >>
         /\ \A k \in 2..n :
              /\ lister.pages[k - 1].IsTruncated
              /\ lister.requests[k] = lister.pages[k - 1].NextContinuationToken
         /\ lister.responses \in { n, n - 1 }
         /\ lister.state \in { "awaiting", "threw" } =>
              (n >= 1 /\ lister.responses = n - 1)
         /\ lister.state = "returned" =>
              /\ lister.responses = n
              /\ ~lister.pages[n].IsTruncated
         /\ [ j \in 1..Len(lister.yielded) |-> lister.yielded[j].Key ]
              = [ j \in 1..Len(KeyedObjectsOf(lister.pages, lister.responses)) |->
                    KeyedObjectsOf(lister.pages, lister.responses)[j].Key ]
         /\ \A j \in 1..Len(lister.yielded) : Len(lister.yielded[j].Key) > 0

\* C36: listAllObjects sends its list requests one after another, the
\* first without a token and each later one with the token of the response
\* before it, sends none after a response that reports no further page,
\* yields in page order exactly the keyed objects of the pages it
\* requested, and comes to an end.
C36_PagesFollowedToTheEnd ==
    []ListedInOrder /\ <>(op = "list" => lister.state \in { "returned", "threw" })

\* three pages were listed with the tokens of pages 1 and 2; the entries
\* without a key in them were not yielded
C36_Witness ==
    /\ op = "list" /\ lister.state = "returned"
    /\ lister.requests = << << >>, TokenOf(1), TokenOf(2) >>
    /\ Len(lister.yielded) = 3
    /\ \E k \in 1..3 : Len(lister.pages[k].Contents.entries) = 2

----------------------------------------------------------------------------
(* createProgressTracker under any sequence of update calls *)

MaxAmount == 3   \* largest amount handed to update
MaxTotal == 4    \* largest total handed to update

InitTracker ==
    /\ op = "tracker"
    /\ run = 1
    /\ pathSep = "/"
    /\ localTree = << >>
    /\ options = MetaOptions(<< >>, << >>, None, None)
    /\ bucket = << >>
    /\ headSizes = {}
    /\ pc = "created"
    /\ outcome = "pending"
    /\ remoteByKey = << >>
    /\ filesToProcess = << >>
    /\ localKeys = {}
    /\ keysToDelete = << >>
    /\ totalOperations = 0
    /\ completedOperations = 0
    /\ unit = << >>
    /\ uploadReqs = EmptyBag
    /\ del = EmptyDel
    /\ filesToSync = << >>
    /\ cp = << >>
    /\ hist = EmptyHist
    /\ tagging = NoTagging
    /\ orch = NoOrch
    /\ lister = NoLister
    /\ tracker = NewTracker

trackerVars == << pathSep, options, localTree, bucket, op, run, outcome,
                  remoteByKey, filesToProcess, localKeys, keysToDelete,
                  unit, uploadReqs, del, filesToSync, cp, headSizes, hist,
                  tagging, orch, lister >>

\* one call tracker.update(amount, total); the arguments of the last call
\* are kept in totalOperations and completedOperations
TrackerUpdate(amount, total) ==
    /\ op = "tracker"
    /\ tracker' = update(tracker, amount, total)
    /\ completedOperations' = amount
    /\ totalOperations' = total
    /\ pc' = "updated"
    /\ UNCHANGED trackerVars

NextTracker ==
    \E amount \in 0..MaxAmount, total \in 0..MaxTotal : TrackerUpdate(amount, total)

SpecTracker == InitTracker /\ [][NextTracker]_vars

----------------------------------------------------------------------------
(* C40 *)

\* the last percentage emitted, 0 before the first
LastEmitted(tr) == IF Len(tr.emitted) = 0 THEN 0 ELSE tr.emitted[Len(tr.emitted)]

\* every percentage emitted is a multiple of 10 above the one before it
EmittedIncreasing ==
    \A k \in 1..Len(tracker.emitted) :
       /\ tracker.emitted[k] % 10 = 0
       /\ tracker.emitted[k] > (IF k = 1 THEN 0 ELSE tracker.emitted[k - 1])

\* a call emits at most one percentage, its own rounded one, and none when
\* its total is 0 or its rounded percentage is not above the last emitted
EmitsOnlyHigher ==
    (op = "tracker" /\ pc' = "updated") =>
      LET amount == completedOperations'
          total == totalOperations'
      IN IF total = 0 \/ 10 * ((20 * amount + total) \div (2 * total)) <= LastEmitted(tracker)
         THEN tracker'.emitted = tracker.emitted
         ELSE tracker'.emitted =
                Append(tracker.emitted, 10 * ((20 * amount + total) \div (2 * total)))

\* C40: under any sequence of update(amount, total) calls the percentages
\* a tracker emits are multiples of 10 and strictly increasing, and a call
\* whose total is 0 or whose rounded percentage does not exceed the last
\* emitted one emits nothing.
C40_EmitsIncreasingTens ==
    [](op = "tracker" => EmittedIncreasing) /\ [][EmitsOnlyHigher]_vars

\* 30%, 50% and 100% were emitted and the last call, update(1, 4), emitted
\* nothing
C40_Witness ==
    /\ op = "tracker" /\ tracker.emitted = << 30, 50, 100 >>
    /\ completedOperations = 1 /\ totalOperations = 4

----------------------------------------------------------------------------
(* C37 *)

\* units of the pass that completed
UnitsDone == Cardinality({ i \in DOMAIN unit : unit[i] = "done" })

\* C37: in a call of uploadDirectory the completed-operations count equals
\* the number of units that completed, plus one once the delete phase
\* returned; it never exceeds the planned total, which is the number of
\* files to process plus one for a non-empty delete phase; and when the
\* call resolved it equals the total and, the total not being zero, the
\* last percentage reported is 100.
C37_CompletedCountLosesNothing ==
    (op = "upload" /\ HasPlan) =>
      /\ totalOperations =
           Len(filesToProcess) + (IF Len(keysToDelete) > 0 THEN 1 ELSE 0)
      /\ completedOperations =
           UnitsDone + (IF del.state = "resolved" THEN 1 ELSE 0)
      /\ completedOperations <= totalOperations
      /\ outcome = "resolved" =>
           /\ completedOperations = totalOperations
           /\ totalOperations > 0 => LastEmitted(tracker) = 100
           /\ totalOperations = 0 => tracker.emitted = << >>

\* a call with concurrency 2 resolved after two units and the delete phase:
\* 30%, 70% and 100% were reported
C37_Witness ==
    /\ op = "upload" /\ outcome = "resolved"
    /\ options.maxConcurrency = 2
    /\ totalOperations = 3 /\ Len(filesToProcess) = 2
    /\ tracker.emitted = << 30, 70, 100 >>

----------------------------------------------------------------------------
(* syncBucketTags over two targets that resolve to the same bucket *)

\* the updateBucketTags call of one target, before its get request
NewTagsCall(bucketTags) ==
    [ tagsToUpdate |-> TagsToUpdate(bucketTags), existingTagSet |-> << >>,
      state |-> "call" ]

InitTagsRace ==
    /\ op = "tagsrace"
    /\ run = 1
    /\ pathSep = "/"
    /\ localTree = << >>
    /\ options = MetaOptions(<< >>, << >>, None, None)
    /\ bucket = << >>
    /\ headSizes = {}
    /\ pc = "hook"
    /\ outcome = "pending"
    /\ remoteByKey = << >>
    /\ filesToProcess = << >>
    /\ localKeys = {}
    /\ keysToDelete = << >>
    /\ totalOperations = 0
    /\ completedOperations = 0
    /\ unit = << >>
    /\ uploadReqs = EmptyBag
    /\ del = EmptyDel
    /\ filesToSync = << >>
    /\ cp = << >>
    /\ hist = EmptyHist
    /\ \E ts \in TagLists({ "1" }), e1 \in TagLists({ "", "2" }),
          e2 \in TagLists({ "3" }) :
         tagging = [ TagSet |-> ts, before |-> ts,
                     calls |-> << NewTagsCall([ defined |-> TRUE, entries |-> e1 ]),
                                  NewTagsCall([ defined |-> TRUE, entries |-> e2 ]) >> ]
    /\ orch = NoOrch
    /\ lister = NoLister
    /\ tracker = NewTracker

\* Promise.all over the two target promises: rejected with the first
\* rejection, fulfilled when both calls returned
RaceSettled(calls) ==
    /\ pc' = IF \A t \in DOMAIN calls : calls[t].state \in { "done", "rejected" }
             THEN "done" ELSE "running"
    /\ outcome' =
         IF outcome # "pending" THEN outcome
         ELSE IF \E t \in DOMAIN calls : calls[t].state = "rejected" THEN "rejected"
         ELSE IF \A t \in DOMAIN calls : calls[t].state = "done" THEN "resolved"
         ELSE "pending"

\* rawBuckets.map(async ...) ran: each target's operation is at its get
\* request
TagsRaceStart ==
    /\ op = "tagsrace" /\ pc = "hook"
    /\ tagging' = [ tagging EXCEPT
                      !.calls = [ t \in DOMAIN @ |-> [ @[t] EXCEPT !.state = "get" ] ] ]
    /\ pc' = "running"
    /\ UNCHANGED << tagsVars, outcome >>

\* the get request of target t is answered (the bucket's tags, or
\* NoSuchTagSet caught as no tags): merge, then the put request is sent
TagsRaceGet(t) ==
    /\ op = "tagsrace"
    /\ t \in DOMAIN tagging.calls
    /\ tagging.calls[t].state = "get"
    /\ tagging' = [ tagging EXCEPT
                      !.calls[t].existingTagSet =
                          mergeTags(tagging.TagSet, tagging.calls[t].tagsToUpdate),
                      !.calls[t].state = "put" ]
    /\ UNCHANGED << tagsVars, pc, outcome >>

\* the put request of target t is answered: the bucket holds what it sent
TagsRacePut(t) ==
    /\ op = "tagsrace"
    /\ t \in DOMAIN tagging.calls
    /\ tagging.calls[t].state = "put"
    /\ LET calls == [ tagging.calls EXCEPT ![t].state = "done" ] IN
         /\ tagging' = [ tagging EXCEPT !.TagSet = tagging.calls[t].existingTagSet,
                                        !.calls = calls ]
         /\ RaceSettled(calls)
    /\ UNCHANGED tagsVars

\* the get or the put request of target t threw an error that is rethrown
TagsRaceThrow(t) ==
    /\ op = "tagsrace"
    /\ t \in DOMAIN tagging.calls
    /\ tagging.calls[t].state \in { "get", "put" }
    /\ LET calls == [ tagging.calls EXCEPT ![t].state = "rejected" ] IN
         /\ tagging' = [ tagging EXCEPT !.calls = calls ]
         /\ RaceSettled(calls)
    /\ UNCHANGED tagsVars

NextTagsRace ==
    \/ TagsRaceStart
    \/ \E t \in 1..2 : TagsRaceGet(t)
    \/ \E t \in 1..2 : TagsRacePut(t)
    \/ \E t \in 1..2 : TagsRaceThrow(t)

SpecTagsRace == InitTagsRace /\ [][NextTagsRace]_vars

----------------------------------------------------------------------------
(* C38 *)

\* C38: when the tag merges of both targets returned, the bucket's tag set
\* holds, for every tag either target configures with a non-empty value, a
\* tag with that key whose value is one configured for the key.
C38_BothTargetsTagsKept ==
    (op = "tagsrace" /\ outcome = "resolved") =>
      \A t \in DOMAIN tagging.calls :
        \A j \in 1..Len(tagging.calls[t].tagsToUpdate) :
          LET tag == tagging.calls[t].tagsToUpdate[j] IN
          \E i \in 1..Len(tagging.TagSet) :
             /\ tagging.TagSet[i].Key = tag.Key
             /\ \E u \in DOMAIN tagging.calls :
                  \E m \in 1..Len(tagging.calls[u].tagsToUpdate) :
                     tagging.calls[u].tagsToUpdate[m] = tagging.TagSet[i]

----------------------------------------------------------------------------
(* C39 *)

\* the operations of the hook in which the pre-command of target t ran
PreCommandRuns(t) ==
    { k \in 1..Len(orch.ops) : orch.pre[k][t] # "none" }

\* C39: a target's pre-command runs only in the upload operation, never in
\* the clear, metadata or tag operations, and a full sync that resolved ran
\* it exactly once for every target whose upload operation ran it.
C39_PreCommandOnlyInUpload ==
    op = "orch" =>
      \A t \in DOMAIN orch.buckets :
        /\ \A k \in PreCommandRuns(t) : orch.ops[k] = "sync"
        /\ (orch.hook = "full" /\ orch.hookOutcome = "resolved"
              /\ orch.pre[1][t] # "none") =>
             Cardinality(PreCommandRuns(t)) = 1

====
